---- MODULE Spec2Model ----
(***************************************************************************)
(* The parameters menu of DLLM_Bot_1 as a state machine: the main loop,    *)
(* showParametersMenu with its General Settings, Wallets and RPC URLs      *)
(* sub-menus, the parameters file written by writeParameters and the       *)
(* secrets file written by storeSecret.                                    *)
(*                                                                         *)
(* An optional value (a missing file, a null, the staged document outside  *)
(* showParametersMenu) is a sequence of length 0 or 1.                      *)
(***************************************************************************)
EXTENDS Integers, Sequences, FiniteSets, TLC

\* Bounds of the model.
MaxId == 2
MaxOrder == 2
MaxNonce == 2
MaxMenuNonce == 1
MaxEntries == 3
MaxStagedOrder == 3

\* Program constants.
DefaultTimeoutSeconds == 20
DefaultNumberOfAttempts == 3
MinKeyLength == 8
AesKeyBytes == 32

\* What the operator can type at the prompts.
NameInputs == {"", "phantom1", "hot"}
AddressInputs == {"", "not-an-address", "addrA"}
UrlInputs == {"", "ftp://rpc", "https://rpcA"}
KeyInputs == {"short", "passphrase"}
TimeoutInputs == {[kind |-> "empty", n |-> 0], [kind |-> "text", n |-> 0],
                  [kind |-> "num", n |-> 0], [kind |-> "num", n |-> 5]}
AttemptsInputs == {[kind |-> "empty", n |-> 0], [kind |-> "text", n |-> 0],
                   [kind |-> "num", n |-> 0], [kind |-> "num", n |-> 1]}
OrderInputs == {[kind |-> "empty", n |-> 0], [kind |-> "text", n |-> 0]}
                 \cup {[kind |-> "num", n |-> k] : k \in 0..MaxOrder}

\* Number(input): the empty string converts to 0, text that is no number to
\* NaN, a decimal such as '1.5' to the number it spells (val whole, tenths
\* after the point).
ToNumber(input) ==
    IF input.kind = "num" THEN [nan |-> FALSE, val |-> input.n, tenths |-> 0]
    ELSE IF input.kind = "decimal"
    THEN [nan |-> FALSE, val |-> input.n, tenths |-> input.tenths]
    ELSE IF input.kind = "empty" THEN [nan |-> FALSE, val |-> 0, tenths |-> 0]
    ELSE [nan |-> TRUE, val |-> 0, tenths |-> 0]

\* num > 0 for a number that is not negative.
Positive(num) == num.val > 0 \/ (num.val = 0 /\ num.tenths > 0)

\* The validator of the timeout and attempts prompts: !isNaN(num) && num >= 1.
AtLeastOne(input) == ~ToNumber(input).nan /\ ToNumber(input).val >= 1

\* The validator of the order prompts: !isNaN(num) && num > 0.
OrderValid(input) == ~ToNumber(input).nan /\ Positive(ToNumber(input))

\* The validator of the name prompts: input && !existingNames.includes(input).
AnyNameValid(input, existingNames) == input # ""
NameValid(input, existingNames) == input # "" /\ input \notin existingNames

\* The validator of the address prompt: empty, or /^[1-9A-Za-z]{43,44}$/.
WellFormedAddresses == {"addrA"}
AddressValid(input) == input = "" \/ input \in WellFormedAddresses

\* The validator of the URL prompt: empty, or /^https?:\/\/.+/.
WellFormedUrls == {"https://rpcA"}
UrlValid(input) == input = "" \/ input \in WellFormedUrls

\* if (valid) break; otherwise the retry prompt.
AlwaysAccepted(valid) == "accepted"
ProbeOutcome(valid) == IF valid THEN "accepted" ELSE "retry"

\* promptInput: an empty answer that passed the validator is a cancel (null).
NeverNull(value) == <<value>>
PromptInput(value) == IF value = "" THEN <<>> ELSE <<value>>
PromptNumber(input) == IF input.kind = "empty" THEN <<>> ELSE <<input>>

----------------------------------------------------------------------------
\* Collections of entries {id, name, order}.

Names(coll) == {coll[i].name : i \in 1..Len(coll)}
Orders(coll) == {coll[i].order : i \in 1..Len(coll)}
Ids(coll) == {coll[i].id : i \in 1..Len(coll)}
Find(coll, id) == coll[CHOOSE i \in 1..Len(coll) : coll[i].id = id]
WithAll(coll, id) == coll
Without(coll, id) == SelectSeq(coll, LAMBDA w : w.id # id)
NamesOfNone(coll, id) == {}
NamesOfOthers(coll, id) == Names(Without(coll, id))
Rename(coll, id, value) ==
    [i \in 1..Len(coll) |-> IF coll[i].id = id THEN [coll[i] EXCEPT !.name = value] ELSE coll[i]]
SetOrder(coll, id, value) ==
    [i \in 1..Len(coll) |-> IF coll[i].id = id THEN [coll[i] EXCEPT !.order = value] ELSE coll[i]]

\* An insertion that puts an entry before those of equal order.
InsertBeforeEqual(x, s) ==
    LET p == Cardinality({i \in 1..Len(s) : s[i].order < x.order})
    IN SubSeq(s, 1, p) \o <<x>> \o SubSeq(s, p + 1, Len(s))

\* Array.prototype.sort((a, b) => a.order - b.order): a stable sort.
InsertByOrder(x, s) ==
    LET p == Cardinality({i \in 1..Len(s) : s[i].order <= x.order})
    IN SubSeq(s, 1, p) \o <<x>> \o SubSeq(s, p + 1, Len(s))

RECURSIVE SortByOrder(_)
SortByOrder(s) ==
    IF Len(s) = 0 THEN <<>>
    ELSE InsertByOrder(s[Len(s)], SortByOrder(SubSeq(s, 1, Len(s) - 1)))

\* sortedOthers.map(w => ({...w, order: w.order === editedOrder ? ++newOrder : newOrder++}))
RECURSIVE ShiftOthers(_, _, _)
ShiftOthers(sortedOthers, editedOrder, newOrder) ==
    IF Len(sortedOthers) = 0 THEN <<>>
    ELSE LET w == Head(sortedOthers)
         IN IF w.order = editedOrder
            THEN <<[w EXCEPT !.order = newOrder + 1]>>
                     \o ShiftOthers(Tail(sortedOthers), editedOrder, newOrder + 1)
            ELSE <<[w EXCEPT !.order = newOrder]>>
                     \o ShiftOthers(Tail(sortedOthers), editedOrder, newOrder + 1)

\* The edited entry put after the others.
EditedLast(edited, others) == others \o <<edited>>

\* [{...wallet, order: editedOrder}, ...others]: the edited entry comes first.
EditedFirst(edited, others) == <<edited>> \o others

\* .map((w, index) => ({...w, order: index + 1}))
KeepOrders(sorted) == sorted
Reindex(sorted) == [i \in 1..Len(sorted) |-> [sorted[i] EXCEPT !.order = i]]

\* The Save-and-Back reordering of a collection around the edited entry.
SortAndReindex(coll, id) == Reindex(SortByOrder(coll))
OthersOnly(coll, id) == Reindex(SortByOrder(Without(coll, id)))
ReorderOnSave(coll, id) ==
    LET edited == Find(coll, id)
        editedOrder == edited.order
        sortedOthers == SortByOrder(Without(coll, id))
    IN Reindex(SortByOrder(EditedFirst(edited, ShiftOthers(sortedOthers, editedOrder, 1))))

----------------------------------------------------------------------------
\* The parameters file.

\* initParameters: one wallet with a fresh uuid, no RPC URL.
InitParameters(uuid) ==
    [defaultCodeSettings |-> [timeoutSeconds |-> DefaultTimeoutSeconds,
                              numberOfAttempts |-> DefaultNumberOfAttempts],
     defaultWalletAddresses |-> <<[id |-> uuid, name |-> "phantom1", order |-> 1]>>,
     defaultRpcUrls |-> <<>>]

\* z.string().uuid(): the ids uuidv4 makes are 1, 2, ...; 0 is a string that
\* is no uuid.
WellFormedId(id) == id >= 1

\* ParametersSchema.parse: timeout >= 1, attempts >= 1, every id a uuid, every
\* order positive.
AnyDocumentOk(doc) == TRUE
ParametersSchemaOk(doc) ==
    /\ doc.defaultCodeSettings.timeoutSeconds >= 1
    /\ doc.defaultCodeSettings.numberOfAttempts >= 1
    /\ \A id \in Ids(doc.defaultWalletAddresses) \cup Ids(doc.defaultRpcUrls) : WellFormedId(id)
    /\ \A o \in Orders(doc.defaultWalletAddresses) \cup Orders(doc.defaultRpcUrls) : o > 0

\* writeParameters: the file is replaced when the document validates and the
\* file system accepts the write; otherwise the error goes to the caller.
WriteSucceeds(doc, ioOk) == ParametersSchemaOk(doc) /\ ioOk

----------------------------------------------------------------------------
\* The secrets file.

WalletSecretKey(id) == <<"solanaWalletAddress", id>>
RpcSecretKey(id) == <<"rpcUrl", id>>

\* A ciphertext is the list of the fields that split(':') finds in the stored
\* string; a field is a sequence of length 0 (the empty string) or 1.
Field(ciphertext, i) == IF Len(ciphertext) >= i THEN ciphertext[i] ELSE <<>>

\* randomBytes(12): the nonces a call may draw. No step of the menu reads a
\* nonce, and its stores draw from a smaller set.
Nonces == 1..MaxNonce
MenuNonces == 1..MaxMenuNonce

\* key.padEnd(32, '0')
RECURSIVE PadEnd(_)
PadEnd(key) == IF Len(key) >= AesKeyBytes THEN key ELSE PadEnd(key \o "0")

\* createCipheriv / createDecipheriv accept a key of exactly 32 bytes and throw
\* 'Invalid key length' for any other: <<>> stands for the throw.
AesKey(key) ==
    LET padded == PadEnd(key)
    IN IF Len(padded) = AesKeyBytes THEN <<padded>> ELSE <<>>

\* cipher.update + cipher.final: the encrypted field, empty for the empty
\* plaintext; cipher.getAuthTag: the tag over the key, the nonce and that field.
GcmEncrypted(value, aes, iv) ==
    IF value = "" THEN <<>> ELSE <<[aes |-> aes, iv |-> iv, data |-> value]>>
GcmAuthTag(aes, iv, encrypted) ==
    <<[aes |-> aes, iv |-> iv, over |-> encrypted, altered |-> FALSE]>>

\* encryptSecret: iv:encrypted:authTag, or <<>> when it throws.
EncryptWithOneNonce(value, key, iv) ==
    LET aes == AesKey(key)
        encrypted == GcmEncrypted(value, aes[1], 1)
    IN IF aes = <<>> THEN <<>>
       ELSE << << <<1>>, encrypted, GcmAuthTag(aes[1], 1, encrypted) >> >>
EncryptSecret(value, key, iv) ==
    LET aes == AesKey(key)
        encrypted == GcmEncrypted(value, aes[1], iv)
    IN IF aes = <<>> THEN <<>>
       ELSE << << <<iv>>, encrypted, GcmAuthTag(aes[1], iv, encrypted) >> >>

\* decryptSecret: the plaintext, or <<>> when it throws: a first, second or
\* third field that is missing or empty, a key of the wrong length, or a tag
\* that does not verify. Fields after the third are not looked at.
FieldsMissing(ciphertext) ==
    \E i \in 1..3 : Field(ciphertext, i) = <<>>
DecryptSecret(ciphertext, key) ==
    LET iv == Field(ciphertext, 1)
        encrypted == Field(ciphertext, 2)
        authTag == Field(ciphertext, 3)
        aes == AesKey(key)
    IN IF FieldsMissing(ciphertext) THEN <<>>
       ELSE IF aes = <<>> THEN <<>>
       ELSE IF authTag # GcmAuthTag(aes[1], iv[1], encrypted) THEN <<>>
       ELSE <<encrypted[1].data>>

\* What the read at the start of storeSecret and retrieveSecret yields: the
\* mapping, or <<>> when the file is missing, unreadable or not parseable.
ReadAlwaysSucceeds(file, readOk) == file
ReadSecrets(file, readOk) == IF readOk THEN file ELSE <<>>

\* storeSecret: read the mapping (empty when the read failed), set the record
\* of secretKey, write the whole mapping; <<>> when encryptSecret throws.
StoreNothing(file, secretKey, value, key, iv) == file
StoreSecret(file, secretKey, value, key, iv) ==
    LET secrets == IF file = <<>> THEN <<>> ELSE file[1]
        ciphertext == EncryptSecret(value, key, iv)
    IN IF ciphertext = <<>> THEN <<>>
       ELSE << [k \in DOMAIN secrets \cup {secretKey} |->
                  IF k = secretKey THEN ciphertext[1] ELSE secrets[k]] >>

\* retrieveSecret: null when the read failed, the key is absent, the record
\* is the empty string or decryption throws.
EmptyString == << <<>> >>
RetrieveSecret(file, secretKey, key) ==
    IF file = <<>> THEN <<>>
    ELSE IF secretKey \notin DOMAIN file[1] THEN <<>>
    ELSE IF file[1][secretKey] = EmptyString THEN <<>>
    ELSE DecryptSecret(file[1][secretKey], key)

----------------------------------------------------------------------------
\* The state of the process and of its files.

VARIABLES
    view,                 \* the prompt the operator is looking at
    params,               \* showParametersMenu's staged document
    originalCodeSettings, \* General Settings: the copy taken on entry
    wallet,               \* Wallets: id of the entry under edit, 0 when none
    rpc,                  \* RPC URLs: id of the entry under edit, 0 when none
    name,                 \* Add: the name accepted at the name prompt
    addressValue,         \* Add wallet: the address accepted at its prompt
    urlValue,             \* Add RPC / edit URL: the URL under test
    parametersFile,       \* data/parameters.json
    secretsFile,          \* data/secrets.json.enc
    keyFile,              \* data/encryption_key.json
    encryptionKey,        \* the module-level key cache
    lastWrite,            \* history: the writeParameters call of the last step, if any,
                          \* with the collection as it was staged before that step
    entered,              \* history: name and order of the entry when its edit menu opened
    cancelled,            \* history: one field edit that was staged and then cancelled
    scenario,             \* history: default document, then one wallet added with order 1
    history,              \* whether entered and cancelled are recorded in this run
    reported,             \* what the catch of the main loop printed in the last step
    call                  \* history: the Parameter Store or Secret Store function called
                          \* directly by the last step, its arguments and its outcome

vars == <<view, params, originalCodeSettings, wallet, rpc, name, addressValue,
          urlValue, parametersFile, secretsFile, keyFile, encryptionKey,
          lastWrite, entered, cancelled, scenario, history, reported, call>>

addVars == <<name, addressValue, urlValue>>
keyVars == <<keyFile, encryptionKey>>

NoScenario == [stage |-> "none", new |-> 0]
AfterNavigation == IF scenario.stage = "saved" THEN NoScenario ELSE scenario

Doc == params[1]
Wallets == Doc.defaultWalletAddresses
Rpcs == Doc.defaultRpcUrls

InitWith(recorded) ==
    /\ history = recorded
    /\ reported = <<>>
    /\ call = <<>>
    /\ view = "Main"
    /\ params = <<>>
    /\ originalCodeSettings = <<>>
    /\ wallet = 0
    /\ rpc = 0
    /\ name = ""
    /\ addressValue = ""
    /\ urlValue = ""
    /\ parametersFile = <<>>
    /\ secretsFile = <<>>
    /\ keyFile = <<>>
    /\ encryptionKey = <<>>
    /\ lastWrite = <<>>
    /\ entered = <<>>
    /\ cancelled = <<>>
    /\ scenario = NoScenario

\* The program starts the same way in both; a run from HistoryInit also
\* records entered and cancelled, which the program itself does not keep.
Init == InitWith(FALSE)
HistoryInit == InitWith(TRUE)

----------------------------------------------------------------------------
\* The main loop and the Parameters menu.

\* The catch of the main loop: console.error with the message of what
\* showParametersMenu threw in this step, if it threw.
MainCatch ==
    reported' = IF lastWrite' # <<>> /\ ~lastWrite'[1].ok
                THEN <<"writeParameters">> ELSE <<>>

\* uuidv4(): an id that occurs nowhere in the staged document, the parameters
\* file or the secrets file; the least such id stands for all of them.
UsedIds ==
    (IF params = <<>> THEN {}
     ELSE Ids(params[1].defaultWalletAddresses) \cup Ids(params[1].defaultRpcUrls))
    \cup (IF parametersFile = <<>> THEN {}
         ELSE Ids(parametersFile[1].defaultWalletAddresses)
                  \cup Ids(parametersFile[1].defaultRpcUrls))
    \cup (IF secretsFile = <<>> THEN {} ELSE {k[2] : k \in DOMAIN secretsFile[1]})
UuidLeft == \E id \in 1..MaxId : id \notin UsedIds
Uuid == CHOOSE id \in 1..MaxId : id \notin UsedIds /\ \A j \in 1..(id - 1) : j \in UsedIds

\* readParameters: the file's document, or the defaults when it cannot be used.
FileAlwaysUsable == parametersFile # <<>>
FileUsable == parametersFile # <<>> /\ ParametersSchemaOk(parametersFile[1])

\* getEncryptionKey: the cached key, else the key file's, else the operator's
\* (the prompt repeats until the answer has at least MinKeyLength characters).
KeyFromFile == keyFile # <<>> /\ Len(keyFile[1]) >= MinKeyLength

\* Main menu, 'Set Parameters': showParametersMenu starts.
EnterParameters ==
    /\ view = "Main"
    /\ FileUsable \/ UuidLeft
    /\ IF FileUsable
       THEN /\ params' = <<parametersFile[1]>>
            /\ scenario' = NoScenario
       ELSE /\ params' = <<InitParameters(Uuid)>>
            /\ scenario' = [stage |-> "default", new |-> 0]
    /\ IF encryptionKey # <<>> THEN UNCHANGED keyVars
       ELSE IF KeyFromFile THEN encryptionKey' = keyFile /\ keyFile' = keyFile
       ELSE \E key \in {k \in KeyInputs : Len(k) >= MinKeyLength} :
                encryptionKey' = <<key>> /\ keyFile' = <<key>>
    /\ view' = "Params"
    /\ lastWrite' = <<>>
    /\ cancelled' = <<>>
    /\ UNCHANGED <<originalCodeSettings, wallet, rpc, addVars, parametersFile,
                   secretsFile, entered>>
    /\ UNCHANGED <<history, call>>
    /\ MainCatch

\* Main menu, 'Exit': the loop ends.
Exit ==
    /\ view = "Main"
    /\ view' = "Exited"
    /\ lastWrite' = <<>>
    /\ UNCHANGED <<params, originalCodeSettings, wallet, rpc, addVars, parametersFile,
                   secretsFile, keyVars, entered, cancelled, scenario>>
    /\ UNCHANGED <<history, call>>
    /\ MainCatch

\* A step of showParametersMenu that only moves between menus.
GotoAndWrite(from, to) ==
    /\ view = from
    /\ view' = to
    /\ parametersFile' = params
    /\ lastWrite' = <<>>
    /\ scenario' = AfterNavigation
    /\ UNCHANGED <<params, originalCodeSettings, wallet, rpc, addVars,
                   secretsFile, keyVars, entered, cancelled>>
    /\ UNCHANGED <<history, call>>
    /\ MainCatch
Goto(from, to) ==
    /\ view = from
    /\ view' = to
    /\ lastWrite' = <<>>
    /\ scenario' = AfterNavigation
    /\ UNCHANGED <<params, originalCodeSettings, wallet, rpc, addVars, parametersFile,
                   secretsFile, keyVars, entered, cancelled>>
    /\ UNCHANGED <<history, call>>
    /\ MainCatch

\* showParametersMenu returns (or throws) to the main loop.
Terminate ==
    /\ view' = "Exited"
    /\ params' = <<>>
    /\ originalCodeSettings' = <<>>
    /\ wallet' = 0
    /\ rpc' = 0
    /\ entered' = <<>>
Leave ==
    /\ view' = "Main"
    /\ params' = <<>>
    /\ originalCodeSettings' = <<>>
    /\ wallet' = 0
    /\ rpc' = 0
    /\ entered' = <<>>

\* Parameters menu, 'Back to menu'.
ParametersBack ==
    /\ view = "Params"
    /\ Leave
    /\ lastWrite' = <<>>
    /\ scenario' = NoScenario
    /\ cancelled' = <<>>
    /\ UNCHANGED <<addVars, parametersFile, secretsFile, keyVars>>
    /\ UNCHANGED <<history, call>>
    /\ MainCatch

\* Parameters menu, 'General Settings': the settings are copied for Cancel.
ParametersCode ==
    /\ view = "Params"
    /\ view' = "Code"
    /\ originalCodeSettings' = <<Doc.defaultCodeSettings>>
    /\ lastWrite' = <<>>
    /\ scenario' = AfterNavigation
    /\ UNCHANGED <<params, wallet, rpc, addVars, parametersFile, secretsFile, keyVars,
                   entered, cancelled>>
    /\ UNCHANGED <<history, call>>
    /\ MainCatch

ParametersWallets == Goto("Params", "Wallets")
ParametersRpcs == Goto("Params", "Rpcs")

----------------------------------------------------------------------------
\* General Settings.

\* A Cancel that leaves the settings as edited.
KeepEdited(doc, original) == doc

\* params.defaultCodeSettings = originalCodeSettings.
RestoreCodeSettings(doc, original) == [doc EXCEPT !.defaultCodeSettings = original]

CodeCancel ==
    /\ view = "Code"
    /\ params' = <<RestoreCodeSettings(Doc, originalCodeSettings[1])>>
    /\ view' = "Params"
    /\ originalCodeSettings' = <<>>
    /\ lastWrite' = <<>>
    /\ UNCHANGED <<wallet, rpc, addVars, parametersFile, secretsFile, keyVars,
                   entered, cancelled, scenario>>
    /\ UNCHANGED <<history, call>>
    /\ MainCatch

\* 'Save and Back': writeParameters(params), then showParametersMenu returns.
CodeSave ==
    /\ view = "Code"
    /\ \E ioOk \in BOOLEAN :
        LET ok == WriteSucceeds(Doc, ioOk)
        IN /\ parametersFile' = IF ok THEN <<Doc>> ELSE parametersFile
           /\ lastWrite' = <<[by |-> "codeSave", id |-> 0, staged |-> <<>>, doc |-> Doc, ok |-> ok]>>
           /\ scenario' = IF ok /\ scenario.stage = "added"
                          THEN [scenario EXCEPT !.stage = "saved"] ELSE NoScenario
           /\ cancelled' = IF ok THEN cancelled ELSE <<>>
    /\ Leave
    /\ UNCHANGED <<addVars, secretsFile, keyVars>>
    /\ UNCHANGED <<history, call>>
    /\ MainCatch

\* A settings field: the validator repeats the prompt; a null answer leaves
\* General Settings; otherwise the field is set.
CodeField(input, field) ==
    /\ view = "Code"
    /\ lastWrite' = <<>>
    /\ IF ~AtLeastOne(input) THEN UNCHANGED <<view, params, originalCodeSettings, scenario>>
       ELSE IF PromptNumber(input) = <<>>
       THEN /\ view' = "Params"
            /\ originalCodeSettings' = <<>>
            /\ UNCHANGED <<params, scenario>>
       ELSE /\ params' = <<[Doc EXCEPT !.defaultCodeSettings[field] = ToNumber(input).val]>>
            /\ scenario' = NoScenario
            /\ UNCHANGED <<view, originalCodeSettings>>
    /\ UNCHANGED <<wallet, rpc, addVars, parametersFile, secretsFile, keyVars,
                   entered, cancelled>>
    /\ UNCHANGED <<history, call>>
    /\ MainCatch

CodeTimeout == \E input \in TimeoutInputs : CodeField(input, "timeoutSeconds")
CodeAttempts == \E input \in AttemptsInputs : CodeField(input, "numberOfAttempts")

----------------------------------------------------------------------------
\* History of cancelled edits. A Cancel notes one of the staged values it was
\* asked to discard (or keeps an older note); the note ends when the operator
\* gives that field a new value, when a Save renumbers the collection (for an
\* order), when the entry is deleted and when showParametersMenu is left.
Discarded(id, staged, before) ==
    (IF staged.name # before.name
     THEN {<<[id |-> id, name |-> staged.name, order |-> 0]>>} ELSE {})
    \cup (IF staged.order # before.order
         THEN {<<[id |-> id, name |-> "", order |-> staged.order]>>} ELSE {})
NotesAfterCancel(id, staged) ==
    IF ~history THEN {<<>>}
    ELSE IF Discarded(id, staged, entered[1]) = {} THEN {cancelled}
    ELSE Discarded(id, staged, entered[1]) \cup ({cancelled} \ {<<>>})
Snapshot(entry) ==
    IF history THEN <<[name |-> entry.name, order |-> entry.order]>> ELSE <<>>
ForgetName(id) ==
    IF cancelled # <<>> /\ cancelled[1].id = id /\ cancelled[1].name # "" THEN <<>> ELSE cancelled
ForgetOrder(ids) ==
    IF cancelled # <<>> /\ cancelled[1].id \in ids /\ cancelled[1].order # 0 THEN <<>> ELSE cancelled
ForgetEntry(id) ==
    IF cancelled # <<>> /\ cancelled[1].id = id THEN <<>> ELSE cancelled

----------------------------------------------------------------------------
\* Wallets: the list, and Add New Wallet.

WalletsBack == Goto("Wallets", "Params")

WalletsBackToMenu ==
    /\ view = "Wallets"
    /\ Leave
    /\ lastWrite' = <<>>
    /\ scenario' = NoScenario
    /\ cancelled' = <<>>
    /\ UNCHANGED <<addVars, parametersFile, secretsFile, keyVars>>
    /\ UNCHANGED <<history, call>>
    /\ MainCatch

\* 'Add New Wallet' (the model stops adding when every id is in use).
WalletsAdd ==
    /\ view = "Wallets"
    /\ UuidLeft
    /\ Goto("Wallets", "AddWalletName")
    /\ UNCHANGED <<history, call>>
    /\ MainCatch

\* The name prompt: unique among the staged wallets and non-empty, or asked again.
AddWalletNameTyped(input) ==
    /\ view = "AddWalletName"
    /\ IF NameValid(input, Names(Wallets))
       THEN name' = input /\ view' = "AddWalletAddress"
       ELSE UNCHANGED <<name, view>>
    /\ lastWrite' = <<>>
    /\ UNCHANGED <<params, originalCodeSettings, wallet, rpc, addressValue, urlValue,
                   parametersFile, secretsFile, keyVars, entered, cancelled,
                   scenario>>
    /\ UNCHANGED <<history, call>>
    /\ MainCatch

AddWalletName == \E input \in NameInputs : AddWalletNameTyped(input)

\* The address prompt: an empty answer abandons the Add.
AddWalletAddressTyped(input) ==
    /\ view = "AddWalletAddress"
    /\ IF ~AddressValid(input) THEN UNCHANGED <<name, addressValue, view>>
       ELSE IF PromptInput(input) = <<>>
       THEN name' = "" /\ view' = "Wallets" /\ UNCHANGED addressValue
       ELSE addressValue' = input /\ view' = "AddWalletOrder" /\ UNCHANGED name
    /\ lastWrite' = <<>>
    /\ UNCHANGED <<params, originalCodeSettings, wallet, rpc, urlValue, parametersFile,
                   secretsFile, keyVars, entered, cancelled, scenario>>
    /\ UNCHANGED <<history, call>>
    /\ MainCatch

AddWalletAddress == \E input \in AddressInputs : AddWalletAddressTyped(input)

\* The order prompt, then uuidv4(), push and storeSecret.
AddWalletOrder ==
    /\ view = "AddWalletOrder"
    /\ \E input \in OrderInputs :
        IF ~OrderValid(input)
        THEN UNCHANGED <<view, params, name, addressValue, secretsFile, scenario>>
        ELSE IF PromptNumber(input) = <<>>
        THEN /\ view' = "Wallets" /\ name' = "" /\ addressValue' = ""
             /\ UNCHANGED <<params, secretsFile, scenario>>
        ELSE LET id == Uuid
                 order == ToNumber(input).val
             IN /\ params' = <<[Doc EXCEPT !.defaultWalletAddresses =
                                   Append(@, [id |-> id, name |-> name, order |-> order])]>>
                /\ \E iv \in MenuNonces :
                    secretsFile' = StoreSecret(secretsFile, WalletSecretKey(id), addressValue,
                                               encryptionKey[1], iv)
                /\ scenario' = IF scenario.stage = "default" /\ order = 1
                               THEN [stage |-> "added", new |-> id] ELSE NoScenario
                /\ view' = "Wallets" /\ name' = "" /\ addressValue' = ""
    /\ lastWrite' = <<>>
    /\ UNCHANGED <<originalCodeSettings, wallet, rpc, urlValue, parametersFile, keyVars,
                   entered, cancelled>>
    /\ UNCHANGED <<history, call>>
    /\ MainCatch

\* 'Edit Wallet <name>': the entry's edit menu opens.
WalletsSelect ==
    /\ view = "Wallets"
    /\ \E id \in Ids(Wallets) :
        /\ wallet' = id
        /\ entered' = Snapshot(Find(Wallets, id))
    /\ view' = "EditWallet"
    /\ lastWrite' = <<>>
    /\ scenario' = AfterNavigation
    /\ UNCHANGED <<params, originalCodeSettings, rpc, addVars, parametersFile, secretsFile,
                   keyVars, cancelled>>
    /\ UNCHANGED <<history, call>>
    /\ MainCatch

----------------------------------------------------------------------------
\* Wallets: the edit menu of one entry.

\* 'Cancel': back to the list.
EditWalletCancel ==
    /\ view = "EditWallet"
    /\ view' = "Wallets"
    /\ wallet' = 0
    /\ entered' = <<>>
    /\ cancelled' \in NotesAfterCancel(wallet, Find(Wallets, wallet))
    /\ lastWrite' = <<>>
    /\ scenario' = AfterNavigation
    /\ UNCHANGED <<params, originalCodeSettings, rpc, addVars, parametersFile, secretsFile,
                   keyVars>>
    /\ UNCHANGED <<history, call>>
    /\ MainCatch

\* 'Save and Back': reorder around the edited wallet, writeParameters, back to the list.
EditWalletSave ==
    /\ view = "EditWallet"
    /\ \E ioOk \in BOOLEAN :
        LET doc == [Doc EXCEPT !.defaultWalletAddresses = ReorderOnSave(@, wallet)]
            ok == WriteSucceeds(doc, ioOk)
        IN /\ parametersFile' = IF ok THEN <<doc>> ELSE parametersFile
           /\ lastWrite' = <<[by |-> "walletSave", id |-> wallet, staged |-> Wallets,
                              doc |-> doc, ok |-> ok]>>
           /\ scenario' = IF ok /\ scenario.stage = "added"
                          THEN [scenario EXCEPT !.stage = "saved"] ELSE NoScenario
           /\ IF ok
              THEN /\ view' = "Wallets" /\ params' = <<doc>> /\ wallet' = 0 /\ entered' = <<>>
                   /\ cancelled' = ForgetOrder(Ids(Wallets))
                   /\ UNCHANGED <<originalCodeSettings, rpc>>
              ELSE Leave /\ cancelled' = <<>>
    /\ UNCHANGED <<addVars, secretsFile, keyVars>>
    /\ UNCHANGED <<history, call>>
    /\ MainCatch

\* 'Delete Wallet': the confirmation prompt.
EditWalletDelete == Goto("EditWallet", "DeleteWallet")

\* The confirmation: no goes back to the edit menu; yes filters the wallet out
\* and calls writeParameters.
DeleteWalletConfirm ==
    /\ view = "DeleteWallet"
    /\ \E confirm \in BOOLEAN :
        IF ~confirm
        THEN /\ view' = "EditWallet"
             /\ lastWrite' = <<>>
             /\ scenario' = AfterNavigation
             /\ UNCHANGED <<params, originalCodeSettings, wallet, rpc, parametersFile,
                            entered, cancelled>>
        ELSE \E ioOk \in BOOLEAN :
            LET doc == [Doc EXCEPT !.defaultWalletAddresses = Without(@, wallet)]
                ok == WriteSucceeds(doc, ioOk)
            IN /\ parametersFile' = IF ok THEN <<doc>> ELSE parametersFile
               /\ lastWrite' = <<[by |-> "walletDelete", id |-> wallet, staged |-> Wallets,
                                  doc |-> doc, ok |-> ok]>>
               /\ scenario' = NoScenario
               /\ IF ok
                  THEN /\ view' = "Wallets" /\ params' = <<doc>> /\ wallet' = 0
                       /\ entered' = <<>>
                       /\ cancelled' = ForgetEntry(wallet)
                       /\ UNCHANGED <<originalCodeSettings, rpc>>
                  ELSE Leave /\ cancelled' = <<>>
    /\ UNCHANGED <<addVars, secretsFile, keyVars>>
    /\ UNCHANGED <<history, call>>
    /\ MainCatch

\* 'Solana Wallet Address (secret)': a non-empty valid answer is stored at once.
EditWalletAddressTyped(input) ==
    /\ view = "EditWallet"
    /\ IF ~AddressValid(input) \/ PromptInput(input) = <<>>
       THEN UNCHANGED secretsFile
       ELSE \E iv \in MenuNonces :
                    secretsFile' = StoreSecret(secretsFile, WalletSecretKey(wallet), input,
                                               encryptionKey[1], iv)
    /\ lastWrite' = <<>>
    /\ scenario' = AfterNavigation
    /\ UNCHANGED <<view, params, originalCodeSettings, wallet, rpc, addVars, parametersFile,
                   keyVars, entered, cancelled>>
    /\ UNCHANGED <<history, call>>
    /\ MainCatch

EditWalletAddress == \E input \in AddressInputs : EditWalletAddressTyped(input)

\* 'Wallet Name': unique among the other staged wallets and non-empty.
EditWalletName ==
    /\ view = "EditWallet"
    /\ \E input \in NameInputs :
        IF ~NameValid(input, NamesOfOthers(Wallets, wallet)) \/ PromptInput(input) = <<>>
        THEN UNCHANGED <<params, cancelled, scenario>>
        ELSE /\ params' = <<[Doc EXCEPT !.defaultWalletAddresses = Rename(@, wallet, input)]>>
             /\ cancelled' = ForgetName(wallet)
             /\ scenario' = NoScenario
    /\ lastWrite' = <<>>
    /\ UNCHANGED <<view, originalCodeSettings, wallet, rpc, addVars, parametersFile,
                   secretsFile, keyVars, entered>>
    /\ UNCHANGED <<history, call>>
    /\ MainCatch

\* 'Order': a number > 0.
EditWalletOrder ==
    /\ view = "EditWallet"
    /\ \E input \in OrderInputs :
        IF ~OrderValid(input) \/ PromptNumber(input) = <<>>
        THEN UNCHANGED <<params, cancelled, scenario>>
        ELSE /\ params' = <<[Doc EXCEPT !.defaultWalletAddresses =
                                SetOrder(@, wallet, ToNumber(input).val)]>>
             /\ cancelled' = ForgetOrder({wallet})
             /\ scenario' = NoScenario
    /\ lastWrite' = <<>>
    /\ UNCHANGED <<view, originalCodeSettings, wallet, rpc, addVars, parametersFile,
                   secretsFile, keyVars, entered>>
    /\ UNCHANGED <<history, call>>
    /\ MainCatch

----------------------------------------------------------------------------
\* RPC URLs: the list, and Add New RPC URL.

RpcsBack == Goto("Rpcs", "Params")

RpcsBackToMenu ==
    /\ view = "Rpcs"
    /\ Leave
    /\ lastWrite' = <<>>
    /\ scenario' = NoScenario
    /\ cancelled' = <<>>
    /\ UNCHANGED <<addVars, parametersFile, secretsFile, keyVars>>
    /\ UNCHANGED <<history, call>>
    /\ MainCatch

\* 'Add New RPC URL' (the model stops adding when every id is in use).
RpcsAdd ==
    /\ view = "Rpcs"
    /\ UuidLeft
    /\ Goto("Rpcs", "AddRpcName")
    /\ UNCHANGED <<history, call>>
    /\ MainCatch

\* The name prompt: unique among the staged RPC URLs and non-empty, or asked again.
AddRpcNameTyped(input) ==
    /\ view = "AddRpcName"
    /\ IF NameValid(input, Names(Rpcs))
       THEN name' = input /\ view' = "AddRpcUrl"
       ELSE UNCHANGED <<name, view>>
    /\ lastWrite' = <<>>
    /\ UNCHANGED <<params, originalCodeSettings, wallet, rpc, addressValue, urlValue,
                   parametersFile, secretsFile, keyVars, entered, cancelled, scenario>>
    /\ UNCHANGED <<history, call>>
    /\ MainCatch

AddRpcName == \E input \in NameInputs : AddRpcNameTyped(input)

\* The URL prompt and pingRpcUrl: an empty answer abandons the Add, a URL that
\* answers goes on to the order prompt, one that does not to the retry prompt.
AddRpcUrlTyped(input, valid) ==
    /\ view = "AddRpcUrl"
    /\ IF ~UrlValid(input) THEN UNCHANGED <<name, urlValue, view>>
       ELSE IF PromptInput(input) = <<>>
       THEN name' = "" /\ view' = "Rpcs" /\ UNCHANGED urlValue
       ELSE /\ urlValue' = input
            /\ view' = IF ProbeOutcome(valid) = "accepted" THEN "AddRpcOrder"
                       ELSE "AddRpcRetry"
            /\ UNCHANGED name
    /\ lastWrite' = <<>>
    /\ UNCHANGED <<params, originalCodeSettings, wallet, rpc, addressValue, parametersFile,
                   secretsFile, keyVars, entered, cancelled, scenario>>
    /\ UNCHANGED <<history, call>>
    /\ MainCatch

AddRpcUrl == \E input \in UrlInputs, valid \in BOOLEAN : AddRpcUrlTyped(input, valid)

\* 'RPC provided is not responding, retry?': yes asks for the URL again, no
\* abandons the Add.
AddRpcRetry ==
    /\ view = "AddRpcRetry"
    /\ \E retry \in BOOLEAN :
        IF retry THEN view' = "AddRpcUrl" /\ UNCHANGED name
        ELSE view' = "Rpcs" /\ name' = ""
    /\ urlValue' = ""
    /\ lastWrite' = <<>>
    /\ UNCHANGED <<params, originalCodeSettings, wallet, rpc, addressValue, parametersFile,
                   secretsFile, keyVars, entered, cancelled, scenario>>
    /\ UNCHANGED <<history, call>>
    /\ MainCatch

\* The order prompt, then uuidv4(), push and storeSecret.
AddRpcOrder ==
    /\ view = "AddRpcOrder"
    /\ \E input \in OrderInputs :
        IF ~OrderValid(input)
        THEN UNCHANGED <<view, params, name, urlValue, secretsFile, scenario>>
        ELSE IF PromptNumber(input) = <<>>
        THEN /\ view' = "Rpcs" /\ name' = "" /\ urlValue' = ""
             /\ UNCHANGED <<params, secretsFile, scenario>>
        ELSE LET id == Uuid
                 order == ToNumber(input).val
             IN /\ params' = <<[Doc EXCEPT !.defaultRpcUrls =
                                   Append(@, [id |-> id, name |-> name, order |-> order])]>>
                /\ \E iv \in MenuNonces :
                    secretsFile' = StoreSecret(secretsFile, RpcSecretKey(id), urlValue,
                                               encryptionKey[1], iv)
                /\ scenario' = NoScenario
                /\ view' = "Rpcs" /\ name' = "" /\ urlValue' = ""
    /\ lastWrite' = <<>>
    /\ UNCHANGED <<originalCodeSettings, wallet, rpc, addressValue, parametersFile, keyVars,
                   entered, cancelled>>
    /\ UNCHANGED <<history, call>>
    /\ MainCatch

\* 'Edit RPC URL <name>': the entry's edit menu opens.
RpcsSelect ==
    /\ view = "Rpcs"
    /\ \E id \in Ids(Rpcs) :
        /\ rpc' = id
        /\ entered' = Snapshot(Find(Rpcs, id))
    /\ view' = "EditRpc"
    /\ lastWrite' = <<>>
    /\ scenario' = AfterNavigation
    /\ UNCHANGED <<params, originalCodeSettings, wallet, addVars, parametersFile, secretsFile,
                   keyVars, cancelled>>
    /\ UNCHANGED <<history, call>>
    /\ MainCatch

----------------------------------------------------------------------------
\* RPC URLs: the edit menu of one entry.

\* 'Cancel': back to the list.
EditRpcCancel ==
    /\ view = "EditRpc"
    /\ view' = "Rpcs"
    /\ rpc' = 0
    /\ entered' = <<>>
    /\ cancelled' \in NotesAfterCancel(rpc, Find(Rpcs, rpc))
    /\ lastWrite' = <<>>
    /\ scenario' = AfterNavigation
    /\ UNCHANGED <<params, originalCodeSettings, wallet, addVars, parametersFile, secretsFile,
                   keyVars>>
    /\ UNCHANGED <<history, call>>
    /\ MainCatch

\* 'Save and Back': reorder around the edited RPC URL, writeParameters, back to the list.
EditRpcSave ==
    /\ view = "EditRpc"
    /\ \E ioOk \in BOOLEAN :
        LET doc == [Doc EXCEPT !.defaultRpcUrls = ReorderOnSave(@, rpc)]
            ok == WriteSucceeds(doc, ioOk)
        IN /\ parametersFile' = IF ok THEN <<doc>> ELSE parametersFile
           /\ lastWrite' = <<[by |-> "rpcSave", id |-> rpc, staged |-> Rpcs,
                              doc |-> doc, ok |-> ok]>>
           /\ scenario' = IF ok /\ scenario.stage = "added"
                          THEN [scenario EXCEPT !.stage = "saved"] ELSE NoScenario
           /\ IF ok
              THEN /\ view' = "Rpcs" /\ params' = <<doc>> /\ rpc' = 0 /\ entered' = <<>>
                   /\ cancelled' = ForgetOrder(Ids(Rpcs))
                   /\ UNCHANGED <<originalCodeSettings, wallet>>
              ELSE Leave /\ cancelled' = <<>>
    /\ UNCHANGED <<addVars, secretsFile, keyVars>>
    /\ UNCHANGED <<history, call>>
    /\ MainCatch

\* 'Delete RPC URL': the confirmation prompt.
EditRpcDelete == Goto("EditRpc", "DeleteRpc")

\* The confirmation: no goes back to the edit menu; yes filters the RPC URL out
\* and calls writeParameters.
DeleteRpcConfirm ==
    /\ view = "DeleteRpc"
    /\ \E confirm \in BOOLEAN :
        IF ~confirm
        THEN /\ view' = "EditRpc"
             /\ lastWrite' = <<>>
             /\ scenario' = AfterNavigation
             /\ UNCHANGED <<params, originalCodeSettings, wallet, rpc, parametersFile,
                            entered, cancelled>>
        ELSE \E ioOk \in BOOLEAN :
            LET doc == [Doc EXCEPT !.defaultRpcUrls = Without(@, rpc)]
                ok == WriteSucceeds(doc, ioOk)
            IN /\ parametersFile' = IF ok THEN <<doc>> ELSE parametersFile
               /\ lastWrite' = <<[by |-> "rpcDelete", id |-> rpc, staged |-> Rpcs,
                                  doc |-> doc, ok |-> ok]>>
               /\ scenario' = NoScenario
               /\ IF ok
                  THEN /\ view' = "Rpcs" /\ params' = <<doc>> /\ rpc' = 0
                       /\ entered' = <<>>
                       /\ cancelled' = ForgetEntry(rpc)
                       /\ UNCHANGED <<originalCodeSettings, wallet>>
                  ELSE Leave /\ cancelled' = <<>>
    /\ UNCHANGED <<addVars, secretsFile, keyVars>>
    /\ UNCHANGED <<history, call>>
    /\ MainCatch

\* 'RPC URL (secret)': the URL prompt opens.
EditRpcUrl == Goto("EditRpc", "EditRpcUrl")

\* The URL prompt and pingRpcUrl: an empty answer goes back to the edit menu, a
\* URL that answers is stored at once, one that does not leads to the retry prompt.
EditRpcUrlTyped(input, valid) ==
    /\ view = "EditRpcUrl"
    /\ IF ~UrlValid(input) THEN UNCHANGED <<view, urlValue, secretsFile>>
       ELSE IF PromptInput(input) = <<>>
       THEN view' = "EditRpc" /\ UNCHANGED <<urlValue, secretsFile>>
       ELSE IF ProbeOutcome(valid) = "accepted"
       THEN /\ \E iv \in MenuNonces :
                    secretsFile' = StoreSecret(secretsFile, RpcSecretKey(rpc), input,
                                               encryptionKey[1], iv)
            /\ view' = "EditRpc"
            /\ UNCHANGED urlValue
       ELSE /\ urlValue' = input
            /\ view' = "EditRpcRetry"
            /\ UNCHANGED secretsFile
    /\ lastWrite' = <<>>
    /\ scenario' = AfterNavigation
    /\ UNCHANGED <<params, originalCodeSettings, wallet, rpc, name, addressValue,
                   parametersFile, keyVars, entered, cancelled>>
    /\ UNCHANGED <<history, call>>
    /\ MainCatch

EditRpcUrlInput ==
    \E input \in UrlInputs, valid \in BOOLEAN : EditRpcUrlTyped(input, valid)

\* 'RPC provided is not responding, retry?': yes asks for the URL again, no
\* goes back to the edit menu.
EditRpcRetry ==
    /\ view = "EditRpcRetry"
    /\ \E retry \in BOOLEAN : view' = IF retry THEN "EditRpcUrl" ELSE "EditRpc"
    /\ urlValue' = ""
    /\ lastWrite' = <<>>
    /\ scenario' = AfterNavigation
    /\ UNCHANGED <<params, originalCodeSettings, wallet, rpc, name, addressValue,
                   parametersFile, secretsFile, keyVars, entered, cancelled>>
    /\ UNCHANGED <<history, call>>
    /\ MainCatch

\* 'RPC URL Name': unique among the other staged RPC URLs and non-empty.
EditRpcName ==
    /\ view = "EditRpc"
    /\ \E input \in NameInputs :
        IF ~NameValid(input, NamesOfOthers(Rpcs, rpc)) \/ PromptInput(input) = <<>>
        THEN UNCHANGED <<params, cancelled, scenario>>
        ELSE /\ params' = <<[Doc EXCEPT !.defaultRpcUrls = Rename(@, rpc, input)]>>
             /\ cancelled' = ForgetName(rpc)
             /\ scenario' = NoScenario
    /\ lastWrite' = <<>>
    /\ UNCHANGED <<view, originalCodeSettings, wallet, rpc, addVars, parametersFile,
                   secretsFile, keyVars, entered>>
    /\ UNCHANGED <<history, call>>
    /\ MainCatch

\* 'Order': a number > 0.
EditRpcOrder ==
    /\ view = "EditRpc"
    /\ \E input \in OrderInputs :
        IF ~OrderValid(input) \/ PromptNumber(input) = <<>>
        THEN UNCHANGED <<params, cancelled, scenario>>
        ELSE /\ params' = <<[Doc EXCEPT !.defaultRpcUrls =
                                SetOrder(@, rpc, ToNumber(input).val)]>>
             /\ cancelled' = ForgetOrder({rpc})
             /\ scenario' = NoScenario
    /\ lastWrite' = <<>>
    /\ UNCHANGED <<view, originalCodeSettings, wallet, rpc, addVars, parametersFile,
                   secretsFile, keyVars, entered>>
    /\ UNCHANGED <<history, call>>
    /\ MainCatch

----------------------------------------------------------------------------
Next ==
    \/ EnterParameters \/ Exit
    \/ ParametersBack \/ ParametersCode \/ ParametersWallets \/ ParametersRpcs
    \/ CodeCancel \/ CodeSave \/ CodeTimeout \/ CodeAttempts
    \/ WalletsBack \/ WalletsBackToMenu \/ WalletsAdd \/ AddWalletName
    \/ AddWalletAddress \/ AddWalletOrder \/ WalletsSelect
    \/ EditWalletCancel \/ EditWalletSave \/ EditWalletDelete \/ DeleteWalletConfirm
    \/ EditWalletAddress \/ EditWalletName \/ EditWalletOrder
    \/ RpcsBack \/ RpcsBackToMenu \/ RpcsAdd \/ AddRpcName \/ AddRpcUrl \/ AddRpcRetry
    \/ AddRpcOrder \/ RpcsSelect
    \/ EditRpcCancel \/ EditRpcSave \/ EditRpcDelete \/ DeleteRpcConfirm
    \/ EditRpcUrl \/ EditRpcUrlInput \/ EditRpcRetry \/ EditRpcName \/ EditRpcOrder

Spec == Init /\ [][Next]_vars
HistorySpec == HistoryInit /\ [][Next]_vars

----------------------------------------------------------------------------
\* The menu when the key file or the secrets file cannot be written.

\* Main menu, 'Set Parameters', no key cached and none usable in the key
\* file: the passphrase is typed, confirmed and cached, then the write of the
\* key file fails; getEncryptionKey throws out of showParametersMenu before
\* any menu is shown.
KeySetupThrows ==
    /\ view = "Main"
    /\ encryptionKey = <<>>
    /\ ~KeyFromFile
    /\ \E key \in {k \in KeyInputs : Len(k) >= MinKeyLength} : encryptionKey' = <<key>>
    /\ lastWrite' = <<>>
    /\ reported' = <<"getEncryptionKey">>
    /\ UNCHANGED <<view, params, originalCodeSettings, wallet, rpc, addVars, parametersFile,
                   secretsFile, keyFile, entered, cancelled, scenario, history, call>>

\* storeSecret throws at one of its four call sites (after the order prompt
\* of an Add, after the address prompt or the successful probe of an edit)
\* because the secrets file cannot be written: the error leaves
\* showParametersMenu.
StoreSecretThrows ==
    /\ view \in {"AddWalletOrder", "EditWallet", "AddRpcOrder", "EditRpcUrl"}
    /\ Leave
    /\ name' = ""
    /\ addressValue' = ""
    /\ urlValue' = ""
    /\ lastWrite' = <<>>
    /\ cancelled' = <<>>
    /\ scenario' = NoScenario
    /\ reported' = <<"storeSecret">>
    /\ UNCHANGED <<parametersFile, secretsFile, keyVars, history, call>>

FaultNext == Next \/ KeySetupThrows \/ StoreSecretThrows

FaultSpec == Init /\ [][FaultNext]_vars

----------------------------------------------------------------------------
\* The menu under an interrupt (Ctrl+C).

\* The modules the main loop loads register no SIGINT listener, so an
\* interrupt at a prompt is left to inquirer and to Node: depending on the
\* inquirer release either the process is ended by the signal, or the open
\* prompt rejects and the rejection is caught by the main loop. Whatever the
\* process held in memory is gone in the first case; the staged document is
\* gone in both.
Interrupt ==
    /\ view \notin {"Exited", "Killed"}
    /\ \/ /\ view' = "Killed"
          /\ encryptionKey' = <<>>
          /\ reported' = <<>>
       \/ /\ view' = "Main"
          /\ encryptionKey' = encryptionKey
          /\ reported' = <<"prompt closed">>
    /\ params' = <<>>
    /\ originalCodeSettings' = <<>>
    /\ wallet' = 0
    /\ rpc' = 0
    /\ name' = ""
    /\ addressValue' = ""
    /\ urlValue' = ""
    /\ entered' = <<>>
    /\ cancelled' = <<>>
    /\ lastWrite' = <<>>
    /\ scenario' = NoScenario
    /\ UNCHANGED <<parametersFile, secretsFile, keyFile, history, call>>

InterruptNext == Next \/ Interrupt

InterruptSpec == Init /\ [][InterruptNext]_vars

----------------------------------------------------------------------------
\* What the edit menus and the secret prompts put on the screen.

\* The text promptInput is handed as the current value of a secret.
SecretPlaceholder == "******"

\* A rendering that prints the retrieved value itself.
ShowCurrent(current) == IF current # <<>> THEN current[1] ELSE "None"

\* `${current ? '******' : 'None'}`: retrieveSecret answers '' (here <<>>)
\* when nothing can be retrieved, and '' is falsy.
CurrentLabel(current) == IF current # <<>> THEN "******" ELSE "None"

\* `${entry.name || 'None'}`.
NameLabel(entryName) == IF entryName # "" THEN entryName ELSE "None"

\* The message and the six choices of 'Edit Wallet <name>'.
EditWalletMenu(entry, currentAddress) ==
    << <<"Edit Wallet", entry.name>>,
       <<"1: Solana Wallet Address (secret)", CurrentLabel(currentAddress)>>,
       <<"2: Wallet Name", NameLabel(entry.name)>>,
       <<"3: Order", entry.order>>,
       <<"4: Delete Wallet">>,
       <<"Cancel">>,
       <<"Save and Back">> >>

\* The message and the six choices of 'Edit RPC URL <name>'.
EditRpcMenu(entry, currentUrl) ==
    << <<"Edit RPC URL", entry.name>>,
       <<"1: RPC URL (secret)", CurrentLabel(currentUrl)>>,
       <<"2: RPC URL Name", NameLabel(entry.name)>>,
       <<"3: Order", entry.order>>,
       <<"4: Delete RPC URL">>,
       <<"Cancel">>,
       <<"Save and Back">> >>

\* `${message} [${displayValue}]` of promptInput.
PromptMessage(message, current, isSecret) ==
    <<message, IF isSecret THEN "******" ELSE current>>

\* The entries of a list menu, sorted by order, each labelled '(default)'
\* when its order is the order of the first of them.
ListChoices(coll) ==
    LET sorted == SortByOrder(coll)
    IN [i \in 1..Len(sorted) |->
          [id |-> sorted[i].id, name |-> sorted[i].name,
           default |-> sorted[i].order = sorted[1].order]]

\* What is on the screen while an edit menu is open.
Screen ==
    IF view = "EditWallet"
    THEN EditWalletMenu(Find(Wallets, wallet),
                        RetrieveSecret(secretsFile, WalletSecretKey(wallet), encryptionKey[1]))
    ELSE IF view = "EditRpc"
    THEN EditRpcMenu(Find(Rpcs, rpc),
                     RetrieveSecret(secretsFile, RpcSecretKey(rpc), encryptionKey[1]))
    ELSE <<>>

----------------------------------------------------------------------------
\* Properties: ordering.

\* The step just taken called writeParameters from one of these places.
Wrote(places) == lastWrite # <<>> /\ lastWrite[1].by \in places
Saves == {"walletSave", "rpcSave"}
Deletes == {"walletDelete", "rpcDelete"}

\* The collection a Save or Delete works on, in some document.
CollectionIn(doc, by) ==
    IF by \in {"walletSave", "walletDelete"} THEN doc.defaultWalletAddresses
    ELSE doc.defaultRpcUrls

Contiguous(coll) == Orders(coll) = 1..Len(coll)
UniqueNames(coll) == Cardinality(Names(coll)) = Len(coll)

\* C1: after a Save-and-Back on a wallet (resp. RPC) entry, the orders of that
\* collection are exactly 1..N, in the document handed to writeParameters and
\* in the staged document, whatever orders were staged before.
C1_SaveRenumbers ==
    Wrote(Saves) =>
        LET written == CollectionIn(lastWrite[1].doc, lastWrite[1].by)
        IN /\ Contiguous(written)
           /\ \A i \in 1..Len(written) : written[i].order = i
           /\ Ids(written) = Ids(lastWrite[1].staged)
           /\ lastWrite[1].ok => CollectionIn(Doc, lastWrite[1].by) = written

\* A Save of two entries that were both staged with order 2 (a duplicate and a
\* gap) has been written.
C1_Witness ==
    /\ Wrote(Saves) /\ lastWrite[1].ok
    /\ Len(lastWrite[1].staged) = 2
    /\ Orders(lastWrite[1].staged) = {2}

\* C2: after a Save-and-Back on an entry staged with order O, 1 <= O <= N, in
\* a collection whose other entries hold distinct orders of 1..N, the entry's
\* final order is O.
C2_EditedEntryTakesItsOrder ==
    Wrote(Saves) =>
        LET staged == lastWrite[1].staged
            id == lastWrite[1].id
            others == Without(staged, id)
            O == Find(staged, id).order
        IN (/\ O \in 1..Len(staged)
            /\ Orders(others) \subseteq 1..Len(staged)
            /\ Cardinality(Orders(others)) = Len(others))
           => Find(CollectionIn(lastWrite[1].doc, lastWrite[1].by), id).order = O

\* C3: from the default document, after a second wallet is added with order 1
\* and a save follows by any menu path, the file holds the new wallet at
\* order 1 and the original wallet at order 2.
C3_NewWalletTakesRankOne ==
    scenario.stage = "saved" =>
        LET ws == parametersFile[1].defaultWalletAddresses
        IN /\ Len(ws) = 2
           /\ \A i \in 1..Len(ws) :
                ws[i].order = IF ws[i].id = scenario.new THEN 1 ELSE 2

\* C3, as the code has it: when the save after that Add is Save-and-Back in the
\* new wallet's edit menu, the new wallet is written with order 1 and the
\* original with order 2; when it is Save-and-Back in the original wallet's
\* edit menu, the original keeps order 1 and the new wallet gets order 2.
C3_SavedFromAnEditMenu ==
    (scenario.stage = "saved" /\ Wrote({"walletSave"})) =>
        LET ws == parametersFile[1].defaultWalletAddresses
        IN /\ parametersFile[1] = lastWrite[1].doc
           /\ Len(ws) = 2
           /\ \A i \in 1..Len(ws) :
                ws[i].order = IF ws[i].id = lastWrite[1].id THEN 1 ELSE 2

\* The save after the Add was made from the new wallet's edit menu.
C3_Witness ==
    /\ scenario.stage = "saved"
    /\ Wrote({"walletSave"})
    /\ lastWrite[1].id = scenario.new
    /\ Find(parametersFile[1].defaultWalletAddresses, scenario.new).order = 1

\* C4: every document on disk has, in both collections, unique names and
\* orders that are exactly 1..N.
C4_FileNormalised ==
    parametersFile # <<>> =>
        /\ UniqueNames(parametersFile[1].defaultWalletAddresses)
        /\ UniqueNames(parametersFile[1].defaultRpcUrls)
        /\ Contiguous(parametersFile[1].defaultWalletAddresses)
        /\ Contiguous(parametersFile[1].defaultRpcUrls)

----------------------------------------------------------------------------
\* Properties: Cancel and Delete.

\* The entry under edit and the collection it is in.
Edited == IF view \in {"EditWallet", "DeleteWallet"} THEN wallet ELSE rpc
StagedAfter(v) ==
    IF v \in {"EditWallet", "DeleteWallet", "Wallets"}
    THEN params'[1].defaultWalletAddresses ELSE params'[1].defaultRpcUrls

\* C5: a Cancel in an entry's edit menu leaves the staged entry with the name
\* and the order it had when the edit menu opened.
C5_CancelRestores ==
    [][(/\ view \in {"EditWallet", "EditRpc"}
        /\ view' \in {"Wallets", "Rpcs"}
        /\ lastWrite' = <<>>)
       => /\ Find(StagedAfter(view), Edited).name = entered[1].name
          /\ Find(StagedAfter(view), Edited).order = entered[1].order]_vars

\* C6: a write that follows the Cancel of a staged name or order, and is not a
\* Save or Delete of that entry, does not put the cancelled value on disk.
C6_CancelledNeverWritten ==
    (/\ cancelled # <<>>
     /\ Wrote({"codeSave"} \cup Saves \cup Deletes)
     /\ lastWrite[1].ok
     /\ lastWrite[1].id # cancelled[1].id)
    => \A coll \in {parametersFile[1].defaultWalletAddresses,
                    parametersFile[1].defaultRpcUrls} :
         \A i \in 1..Len(coll) :
            coll[i].id = cancelled[1].id
            => /\ coll[i].name # cancelled[1].name
               /\ coll[i].order # cancelled[1].order

\* C7: after a confirmed Delete, retrieveSecret of the entry's secret key
\* returns null.
C7_DeleteRemovesSecret ==
    (Wrote(Deletes) /\ lastWrite[1].ok) =>
        RetrieveSecret(secretsFile,
                       IF lastWrite[1].by = "walletDelete"
                       THEN WalletSecretKey(lastWrite[1].id)
                       ELSE RpcSecretKey(lastWrite[1].id),
                       encryptionKey[1]) = <<>>

\* C8: choosing Delete changes nothing; an answer of no leaves the staged
\* document, the parameters file and the secrets file as they are and goes
\* back to the same entry's edit menu; an answer of yes hands writeParameters
\* the document without the entry at once and, the write done, the staged
\* document and the file are that document and the list is shown.
C8_DeleteAfterConfirmation ==
    [][/\ view' \in {"DeleteWallet", "DeleteRpc"}
          => UNCHANGED <<params, parametersFile, secretsFile, wallet, rpc>>
       /\ view \in {"DeleteWallet", "DeleteRpc"}
          => \/ /\ view' = (IF view = "DeleteWallet" THEN "EditWallet" ELSE "EditRpc")
                /\ lastWrite' = <<>>
                /\ UNCHANGED <<params, parametersFile, secretsFile, wallet, rpc>>
             \/ /\ lastWrite' # <<>>
                /\ lastWrite'[1].by = (IF view = "DeleteWallet" THEN "walletDelete"
                                       ELSE "rpcDelete")
                /\ lastWrite'[1].id = Edited
                /\ Edited \notin Ids(CollectionIn(lastWrite'[1].doc, lastWrite'[1].by))
                /\ Len(CollectionIn(lastWrite'[1].doc, lastWrite'[1].by))
                       = Len(CollectionIn(Doc, lastWrite'[1].by)) - 1
                /\ lastWrite'[1].ok
                   => /\ parametersFile' = <<lastWrite'[1].doc>>
                      /\ params' = <<lastWrite'[1].doc>>
                      /\ view' = (IF view = "DeleteWallet" THEN "Wallets" ELSE "Rpcs")]_vars

\* A confirmed Delete of one of two staged wallets has been written.
C8_Witness ==
    /\ Wrote({"walletDelete"}) /\ lastWrite[1].ok
    /\ view = "Wallets"
    /\ Len(lastWrite[1].staged) = 2
    /\ Len(Wallets) = 1

----------------------------------------------------------------------------
\* Properties: names.

\* C9: at the name prompt of an Add, a name that a staged entry of the same
\* collection has is asked again, with no entry pushed and no secret stored;
\* a name that only an entry of the other collection has is accepted.
C9_DuplicateNameRejected ==
    [][\A input \in NameInputs :
        /\ (AddWalletNameTyped(input) /\ input \in Names(Wallets))
           => /\ view' = "AddWalletName"
              /\ UNCHANGED <<params, parametersFile, secretsFile>>
        /\ (AddRpcNameTyped(input) /\ input \in Names(Rpcs))
           => /\ view' = "AddRpcName"
              /\ UNCHANGED <<params, parametersFile, secretsFile>>
        /\ (AddWalletNameTyped(input) /\ input \in Names(Rpcs) \ Names(Wallets))
           => view' = "AddWalletAddress" /\ name' = input
        /\ (AddRpcNameTyped(input) /\ input \in Names(Wallets) \ Names(Rpcs))
           => view' = "AddRpcUrl" /\ name' = input
        /\ view \in {"AddWalletName", "AddRpcName"}
           => UNCHANGED <<params, parametersFile, secretsFile>>]_vars

\* An RPC URL is staged under the name of a staged wallet.
C9_Witness ==
    /\ params # <<>>
    /\ Names(Wallets) \cap Names(Rpcs) # {}

\* C10: every name in the staged wallets is non-empty and unique among the
\* wallets, and likewise among the RPC URLs.
C10_StagedNamesUnique ==
    params # <<>> =>
        /\ "" \notin Names(Wallets) \cup Names(Rpcs)
        /\ UniqueNames(Wallets)
        /\ UniqueNames(Rpcs)

\* Two wallets are staged, the first of them renamed.
C10_Witness ==
    /\ params # <<>>
    /\ Len(Wallets) = 2
    /\ Wallets[1].name = "hot"
    /\ Wallets[2].name = "phantom1"

----------------------------------------------------------------------------
\* The Parameter Store called directly: writeParameters and readParameters on
\* any document and any file, the menu not running.

menuVars == <<view, params, originalCodeSettings, wallet, rpc, name, addressValue,
              urlValue, lastWrite, entered, cancelled, scenario, history, reported>>

\* Documents a caller can hand to writeParameters or that can lie on disk:
\* valid ones, and ones with a timeout or attempts of 0, an order of 0 or an
\* id that is no uuid.
DocumentOf(timeout, attempts, wallets) ==
    [defaultCodeSettings |-> [timeoutSeconds |-> timeout, numberOfAttempts |-> attempts],
     defaultWalletAddresses |-> wallets,
     defaultRpcUrls |-> <<>>]
StoreDocuments ==
    {DocumentOf(t, a, w) :
        t \in {0, DefaultTimeoutSeconds}, a \in {0, DefaultNumberOfAttempts},
        w \in {<<>>, <<[id |-> 1, name |-> "phantom1", order |-> 1]>>,
               <<[id |-> 1, name |-> "phantom1", order |-> 0]>>,
               <<[id |-> 0, name |-> "phantom1", order |-> 1]>>}}

\* No menu is running.
MenuIdle ==
    /\ view = "Library"
    /\ params = <<>>
    /\ originalCodeSettings = <<>>
    /\ wallet = 0
    /\ rpc = 0
    /\ name = ""
    /\ addressValue = ""
    /\ urlValue = ""
    /\ lastWrite = <<>>
    /\ entered = <<>>
    /\ cancelled = <<>>
    /\ scenario = NoScenario
    /\ history = FALSE
    /\ reported = <<>>
    /\ call = <<>>

ParameterStoreInit ==
    /\ MenuIdle
    /\ parametersFile \in {<<>>} \cup {<<doc>> : doc \in StoreDocuments}
    /\ secretsFile = <<>>
    /\ keyFile = <<>>
    /\ encryptionKey = <<>>

\* writeParameters(params): ParametersSchema.parse, then fs.writeFile; either
\* failure is logged and thrown again.
WriteParameters ==
    /\ view = "Library"
    /\ \E doc \in StoreDocuments, ioOk \in BOOLEAN :
        /\ parametersFile' = IF WriteSucceeds(doc, ioOk) THEN <<doc>> ELSE parametersFile
        /\ call' = <<[op |-> "writeParameters", doc |-> doc,
                      threw |-> ~WriteSucceeds(doc, ioOk)]>>
    /\ UNCHANGED <<menuVars, secretsFile, keyVars>>

\* readParameters(): readFile, JSON.parse and ParametersSchema.parse; any
\* failure is logged and answered with initParameters().
ReadParameters ==
    /\ view = "Library"
    /\ \E readOk \in BOOLEAN :
        call' = <<[op |-> "readParameters", readOk |-> readOk,
                   result |-> IF readOk /\ FileUsable THEN parametersFile[1]
                              ELSE InitParameters(Uuid)]>>
    /\ UNCHANGED <<menuVars, parametersFile, secretsFile, keyVars>>

ParameterStoreNext == WriteParameters \/ ReadParameters

ParameterStoreSpec == ParameterStoreInit /\ [][ParameterStoreNext]_vars

Called(op) == call # <<>> /\ call[1].op = op

\* C13: writeParameters of a document that violates the schema throws and
\* leaves the parameters file as it was.
C13_InvalidNeverWritten ==
    [][(call' # <<>> /\ call'[1].op = "writeParameters"
        /\ \/ call'[1].doc.defaultCodeSettings.timeoutSeconds < 1
           \/ call'[1].doc.defaultCodeSettings.numberOfAttempts < 1
           \/ \E o \in Orders(call'[1].doc.defaultWalletAddresses) : o <= 0
           \/ \E id \in Ids(call'[1].doc.defaultWalletAddresses) : id = 0)
       => /\ call'[1].threw
          /\ parametersFile' = parametersFile]_vars

\* A schema-violating document was handed to writeParameters while a valid
\* document was on disk.
C13_Witness ==
    /\ Called("writeParameters")
    /\ call[1].doc.defaultCodeSettings.timeoutSeconds = 0
    /\ call[1].threw
    /\ parametersFile # <<>>
    /\ parametersFile[1].defaultCodeSettings.timeoutSeconds = DefaultTimeoutSeconds

\* C14: readParameters answers with the default document (default timeout and
\* attempts, one wallet with order 1, no RPC URL) when the file is missing,
\* cannot be read or parsed, or fails the schema, and never changes the file.
C14_ReadFallsBackToDefaults ==
    [][(call' # <<>> /\ call'[1].op = "readParameters")
       => /\ parametersFile' = parametersFile
          /\ (\/ parametersFile = <<>>
              \/ ~call'[1].readOk
              \/ parametersFile[1].defaultCodeSettings.timeoutSeconds < 1
              \/ parametersFile[1].defaultCodeSettings.numberOfAttempts < 1
              \/ \E o \in Orders(parametersFile[1].defaultWalletAddresses) : o <= 0
              \/ \E id \in Ids(parametersFile[1].defaultWalletAddresses) : id = 0)
             => /\ call'[1].result.defaultCodeSettings =
                      [timeoutSeconds |-> DefaultTimeoutSeconds,
                       numberOfAttempts |-> DefaultNumberOfAttempts]
                /\ Len(call'[1].result.defaultWalletAddresses) = 1
                /\ call'[1].result.defaultWalletAddresses[1].order = 1
                /\ call'[1].result.defaultWalletAddresses[1].name = "phantom1"
                /\ call'[1].result.defaultRpcUrls = <<>>]_vars

\* readParameters has answered with the defaults for a file whose document
\* fails the schema.
C14_Witness ==
    /\ Called("readParameters")
    /\ call[1].readOk
    /\ parametersFile # <<>>
    /\ parametersFile[1].defaultCodeSettings.numberOfAttempts = 0
    /\ call[1].result.defaultCodeSettings.numberOfAttempts = DefaultNumberOfAttempts

----------------------------------------------------------------------------
\* Properties: the Add and URL prompts of the menu.

RpcRecords(file) ==
    IF file = <<>> THEN <<>>
    ELSE [k \in {j \in DOMAIN file[1] : j[1] = "rpcUrl"} |-> file[1][k]]

\* C11: the menu stores an RPC URL only in a step whose probe of that URL
\* answered true (edit), or after the URL prompt of the Add was left with a
\* probe of that URL that answered true; a probe that answers false leads to
\* the retry prompt with nothing stored, where yes asks for the URL again and
\* no abandons with nothing stored.
C11_StoredOnlyAfterProbe ==
    [][/\ \A input \in UrlInputs, valid \in BOOLEAN :
            /\ (EditRpcUrlTyped(input, valid) /\ secretsFile' # secretsFile)
               => /\ valid
                  /\ RetrieveSecret(secretsFile', RpcSecretKey(rpc), encryptionKey[1])
                         = <<input>>
            /\ (EditRpcUrlTyped(input, valid) /\ ~valid /\ input \in WellFormedUrls)
               => view' = "EditRpcRetry" /\ secretsFile' = secretsFile
            /\ (AddRpcUrlTyped(input, valid) /\ ~valid /\ input \in WellFormedUrls)
               => view' = "AddRpcRetry" /\ secretsFile' = secretsFile
       /\ (view # "AddRpcOrder" /\ view' = "AddRpcOrder")
          => \E input \in WellFormedUrls :
                AddRpcUrlTyped(input, TRUE) /\ urlValue' = input
       /\ (view = "AddRpcOrder" /\ view' = "AddRpcOrder") => urlValue' = urlValue
       /\ (view = "AddRpcOrder" /\ secretsFile' # secretsFile)
          => \E id \in Ids(params'[1].defaultRpcUrls) \ Ids(Rpcs) :
                RetrieveSecret(secretsFile', RpcSecretKey(id), encryptionKey[1])
                    = <<urlValue>>
       /\ RpcRecords(secretsFile') # RpcRecords(secretsFile)
          => view \in {"AddRpcOrder", "EditRpcUrl"}
       /\ view = "AddRpcRetry"
          => view' \in {"AddRpcUrl", "Rpcs"} /\ secretsFile' = secretsFile
       /\ view = "EditRpcRetry"
          => view' \in {"EditRpcUrl", "EditRpc"} /\ secretsFile' = secretsFile]_vars

\* The URL of the RPC entry hot, stored by the menu, is in the secrets file.
C11_Witness ==
    /\ view = "EditRpc"
    /\ RetrieveSecret(secretsFile, RpcSecretKey(rpc), encryptionKey[1]) = <<"https://rpcA">>
    /\ Find(Rpcs, rpc).name = "hot"

\* C12: an Add abandoned after its name was accepted (an empty answer at the
\* wallet's address prompt or at the URL prompt, or no at the retry prompt)
\* shows the list again with the staged document, the parameters file and the
\* secrets file unchanged.
C12_AbandonedAddChangesNothing ==
    [][/\ AddWalletAddressTyped("")
          => /\ name # ""
             /\ view' = "Wallets"
             /\ UNCHANGED <<params, parametersFile, secretsFile>>
       /\ \A valid \in BOOLEAN :
            AddRpcUrlTyped("", valid)
            => /\ name # ""
               /\ view' = "Rpcs"
               /\ UNCHANGED <<params, parametersFile, secretsFile>>
       /\ (view = "AddRpcRetry" /\ view' # "AddRpcUrl")
          => /\ name # ""
             /\ view' = "Rpcs"
             /\ UNCHANGED <<params, parametersFile, secretsFile>>]_vars

\* The retry prompt of an Add is open, with the name hot accepted, an RPC URL
\* already staged and its secret stored.
C12_Witness ==
    /\ view = "AddRpcRetry"
    /\ name = "hot"
    /\ Len(Rpcs) = 1
    /\ RpcRecords(secretsFile) # <<>>

----------------------------------------------------------------------------
\* The Secret Store, called directly: getEncryptionKey, encryptSecret,
\* decryptSecret, storeSecret and retrieveSecret over the key file and the
\* secrets file.

\* The plaintexts handed to encryptSecret and storeSecret.
SecretValues == {"", "addrA", "https://rpcA"}

\* The passphrases typed at the key prompt; the validator sends the first back.
PassphraseInputs ==
    {"short", "passphrase", "a passphrase of more than thirty-two characters"}

\* The secret keys of the mapping.
SecretKeys == {WalletSecretKey(1), RpcSecretKey(2)}

\* A record as encryptSecret wrote it, and records changed on disk since: the
\* tag altered, the tag cut off, a fourth field added, the empty string, and
\* a record written under another passphrase.
Genuine(value) == EncryptSecret(value, "passphrase", 1)[1]
AlterTag(ciphertext) ==
    [ciphertext EXCEPT ![3] = <<[@[1] EXCEPT !.altered = TRUE]>>]
TagAltered(ciphertext) ==
    Len(ciphertext) >= 3 /\ Field(ciphertext, 3) # <<>> /\ ciphertext[3][1].altered
ThreeFields(ciphertext) ==
    Len(ciphertext) = 3 /\ \A i \in 1..3 : ciphertext[i] # <<>>
InitialWalletRecords ==
    { Genuine("addrA"),
      AlterTag(Genuine("addrA")),
      SubSeq(Genuine("addrA"), 1, 2),
      Append(Genuine("addrA"), <<0>>),
      EmptyString,
      EncryptSecret("addrA", "another passphrase", 1)[1] }
InitialSecretsFiles ==
    {<<>>}
    \cup { << [k \in {WalletSecretKey(1)} |-> w] >> : w \in InitialWalletRecords }
    \cup { << [k \in {RpcSecretKey(2)} |-> Genuine("https://rpcA")] >> }
    \cup { << [k \in SecretKeys |->
                 IF k = WalletSecretKey(1) THEN w ELSE Genuine("https://rpcA")] >> :
           w \in InitialWalletRecords }

SecretStoreInit ==
    /\ MenuIdle
    /\ parametersFile = <<>>
    /\ secretsFile \in InitialSecretsFiles
    /\ keyFile \in {<<>>, <<"short">>, <<"passphrase">>}
    /\ encryptionKey = <<>>

\* getEncryptionKey: the cached key; else the key of the key file when it
\* holds a string of at least 8 characters; else the passphrase typed and
\* confirmed at the prompt, cached and then written to the key file.
NeverCached == FALSE
KeyCached == encryptionKey # <<>>
GetEncryptionKey ==
    /\ view = "Library"
    /\ IF KeyCached
       THEN /\ call' = <<[op |-> "getEncryptionKey", readKeyFile |-> FALSE,
                          prompted |-> FALSE, result |-> encryptionKey]>>
            /\ UNCHANGED keyVars
       ELSE IF KeyFromFile
       THEN /\ encryptionKey' = keyFile
            /\ call' = <<[op |-> "getEncryptionKey", readKeyFile |-> TRUE,
                          prompted |-> FALSE, result |-> keyFile]>>
            /\ UNCHANGED keyFile
       ELSE \E key \in {k \in PassphraseInputs : Len(k) >= MinKeyLength},
               ioOk \in BOOLEAN :
            /\ encryptionKey' = <<key>>
            /\ keyFile' = IF ioOk THEN <<key>> ELSE keyFile
            /\ call' = <<[op |-> "getEncryptionKey", readKeyFile |-> TRUE,
                          prompted |-> TRUE,
                          result |-> IF ioOk THEN <<key>> ELSE <<>>]>>
    /\ UNCHANGED <<menuVars, parametersFile, secretsFile>>

\* encryptSecret(value, key) with the key that getEncryptionKey returned.
Encrypt ==
    /\ view = "Library"
    /\ encryptionKey # <<>>
    /\ \E value \in SecretValues, iv \in Nonces :
        call' = <<[op |-> "encryptSecret", value |-> value, key |-> encryptionKey[1],
                   iv |-> iv, result |-> EncryptSecret(value, encryptionKey[1], iv)]>>
    /\ UNCHANGED <<menuVars, parametersFile, secretsFile, keyVars>>

\* decryptSecret(ciphertext, key) of a record of the secrets file.
Decrypt ==
    /\ view = "Library"
    /\ encryptionKey # <<>>
    /\ secretsFile # <<>>
    /\ \E secretKey \in DOMAIN secretsFile[1] :
        call' = <<[op |-> "decryptSecret", ciphertext |-> secretsFile[1][secretKey],
                   key |-> encryptionKey[1],
                   result |-> DecryptSecret(secretsFile[1][secretKey], encryptionKey[1])]>>
    /\ UNCHANGED <<menuVars, parametersFile, secretsFile, keyVars>>

\* storeSecret(secretKey, value, encryptionKey): a failed read starts from the
\* empty mapping; a throw of encryptSecret or of writeFile leaves the file.
Store ==
    /\ view = "Library"
    /\ encryptionKey # <<>>
    /\ \E secretKey \in SecretKeys, value \in SecretValues, iv \in Nonces,
          readOk \in BOOLEAN, ioOk \in BOOLEAN :
        LET written == StoreSecret(ReadSecrets(secretsFile, readOk), secretKey, value,
                                   encryptionKey[1], iv)
            threw == written = <<>> \/ ~ioOk
        IN /\ secretsFile' = IF threw THEN secretsFile ELSE written
           /\ call' = <<[op |-> "storeSecret", secretKey |-> secretKey, value |-> value,
                         key |-> encryptionKey[1], readOk |-> readOk, threw |-> threw]>>
    /\ UNCHANGED <<menuVars, parametersFile, keyVars>>

\* retrieveSecret(secretKey, encryptionKey): every failure is caught and
\* answered with null.
Retrieve ==
    /\ view = "Library"
    /\ encryptionKey # <<>>
    /\ \E secretKey \in SecretKeys, readOk \in BOOLEAN :
        call' = <<[op |-> "retrieveSecret", secretKey |-> secretKey,
                   key |-> encryptionKey[1], readOk |-> readOk, threw |-> FALSE,
                   result |-> RetrieveSecret(ReadSecrets(secretsFile, readOk), secretKey,
                                             encryptionKey[1])]>>
    /\ UNCHANGED <<menuVars, parametersFile, secretsFile, keyVars>>

SecretStoreNext ==
    \/ GetEncryptionKey
    \/ Encrypt
    \/ Decrypt
    \/ Store
    \/ Retrieve

SecretStoreSpec == SecretStoreInit /\ [][SecretStoreNext]_vars

----------------------------------------------------------------------------
\* Properties: the Secret Store.

\* C15: for every plaintext and every key of at least 8 characters,
\* encryptSecret returns a ciphertext that decryptSecret turns back into the
\* plaintext under the same key.
C15_RoundTrip ==
    (Called("encryptSecret") /\ Len(call[1].key) >= MinKeyLength)
    => /\ call[1].result # <<>>
       /\ DecryptSecret(call[1].result[1], call[1].key) = <<call[1].value>>

C17_AlteredOrMalformedRejected ==
    /\ (/\ Called("decryptSecret")
        /\ TagAltered(call[1].ciphertext) \/ ~ThreeFields(call[1].ciphertext))
       => call[1].result = <<>>
    /\ (/\ Called("retrieveSecret")
        /\ call[1].readOk
        /\ secretsFile # <<>>
        /\ call[1].secretKey \in DOMAIN secretsFile[1]
        /\ LET record == secretsFile[1][call[1].secretKey]
           IN TagAltered(record) \/ ~ThreeFields(record))
       => call[1].result = <<>> /\ ~call[1].threw

\* C18: retrieveSecret returns null, without throwing and with the secrets
\* file untouched, when the file is missing, cannot be read or parsed, or has
\* no record under the secret key.
C18_AbsentWithoutThrowing ==
    [][Retrieve
       => /\ secretsFile' = secretsFile
          /\ ~call'[1].threw
          /\ (\/ secretsFile = <<>>
              \/ ~call'[1].readOk
              \/ call'[1].secretKey \notin DOMAIN secretsFile[1])
             => call'[1].result = <<>>]_vars

\* retrieveSecret returned null because the read failed, for a secret key
\* whose record in the file decrypts under the key.
C18_Witness ==
    /\ Called("retrieveSecret")
    /\ ~call[1].readOk
    /\ call[1].result = <<>>
    /\ RetrieveSecret(secretsFile, call[1].secretKey, call[1].key) = <<"addrA">>

\* C19: after storeSecret(secretKey, v, k) has returned, retrieveSecret(
\* secretKey, k) returns v, whether or not secretKey had a record before.
C19_StoreThenRetrieve ==
    (Called("storeSecret") /\ ~call[1].threw)
    => /\ secretsFile # <<>>
       /\ call[1].secretKey \in DOMAIN secretsFile[1]
       /\ RetrieveSecret(secretsFile, call[1].secretKey, call[1].key) = <<call[1].value>>

----------------------------------------------------------------------------
\* pingRpcUrl, called directly. The variable call holds the one call in
\* progress: the state of its two promises and the value it has returned.

PingUrls == {"https://rpcA", "https://rpcB"}

\* What fetch can resolve with: any HTTP status, and a body that is the JSON
\* of a getHealth answer with result 'ok', of an answer with another result,
\* of a JSON-RPC error without result, the JSON null, or no JSON at all.
HttpStatuses == {200, 404, 429, 500}
Bodies == {"ok", "behind", "error", "null", "notJson"}
SuccessStatus(status) == status \in 200..299

\* The settlement of fetchPromise: response.json() rejects for a body that is
\* not JSON and resolves with the parsed body otherwise; the status is not
\* looked at.
FetchPromise(status, body) ==
    IF body = "notJson" THEN [state |-> "rejected", data |-> "none"]
    ELSE [state |-> "resolved", data |-> body]
NetworkError == [state |-> "rejected", data |-> "none"]
TimedOut == [state |-> "rejected", data |-> "none"]

\* return data.result === 'ok', inside try / catch { return false }: a
\* rejection and the TypeError of reading null.result both end in the catch.
PingResult(settlement) ==
    IF settlement.state = "rejected" THEN FALSE
    ELSE IF settlement.data = "null" THEN FALSE
    ELSE settlement.data = "ok"

\* Promise.race: the first promise to settle decides; the function has
\* returned by then and a later settlement finds nobody waiting.
LastSettlementWins(returned, settlement) == <<PingResult(settlement)>>
Race(returned, settlement) ==
    IF returned = <<>> THEN <<PingResult(settlement)>> ELSE returned

PingInit ==
    /\ MenuIdle
    /\ parametersFile = <<>>
    /\ secretsFile = <<>>
    /\ keyFile = <<>>
    /\ encryptionKey = <<>>

\* pingRpcUrl(url) up to its await: the timer is armed and fetch is started.
PingStart ==
    /\ view = "Library"
    /\ IF call = <<>> THEN TRUE
       ELSE call[1].returned # <<>> /\ call[1].timer = "fired" /\ call[1].fetch # "pending"
    /\ \E url \in PingUrls :
        call' = <<[op |-> "pingRpcUrl", url |-> url, timer |-> "armed",
                   fetch |-> "pending", status |-> 0, body |-> "none",
                   first |-> "none", returned |-> <<>>]>>
    /\ UNCHANGED <<menuVars, parametersFile, secretsFile, keyVars>>

\* fetch resolves with a response, whose body is then read.
FetchResponds ==
    /\ view = "Library"
    /\ Called("pingRpcUrl")
    /\ call[1].fetch = "pending"
    /\ \E status \in HttpStatuses, body \in Bodies :
        call' = <<[call[1] EXCEPT
                     !.fetch = FetchPromise(status, body).state,
                     !.status = status,
                     !.body = body,
                     !.first = IF @ = "none" THEN "fetch" ELSE @,
                     !.returned = Race(@, FetchPromise(status, body))]>>
    /\ UNCHANGED <<menuVars, parametersFile, secretsFile, keyVars>>

\* fetch rejects: the host cannot be reached, the connection breaks.
FetchFails ==
    /\ view = "Library"
    /\ Called("pingRpcUrl")
    /\ call[1].fetch = "pending"
    /\ call' = <<[call[1] EXCEPT
                    !.fetch = "rejected",
                    !.first = IF @ = "none" THEN "fetch" ELSE @,
                    !.returned = Race(@, NetworkError)]>>
    /\ UNCHANGED <<menuVars, parametersFile, secretsFile, keyVars>>

\* The 3-second timer fires and rejects timeoutPromise.
TimerFires ==
    /\ view = "Library"
    /\ Called("pingRpcUrl")
    /\ call[1].timer = "armed"
    /\ call' = <<[call[1] EXCEPT
                    !.timer = "fired",
                    !.first = IF @ = "none" THEN "timer" ELSE @,
                    !.returned = Race(@, TimedOut)]>>
    /\ UNCHANGED <<menuVars, parametersFile, secretsFile, keyVars>>

PingNext == PingStart \/ FetchResponds \/ FetchFails \/ TimerFires

PingSpec == PingInit /\ [][PingNext]_vars

\* C21: pingRpcUrl returns true only for a response that arrived before the
\* timer fired, has a success status and is a getHealth answer with result
\* 'ok'; in every other case it returns false.
C21_TrueOnlyWhenHealthy ==
    (Called("pingRpcUrl") /\ call[1].returned # <<>>)
    => (call[1].returned = <<TRUE>>
        <=> /\ call[1].first = "fetch"
            /\ call[1].fetch = "resolved"
            /\ SuccessStatus(call[1].status)
            /\ call[1].body = "ok")

\* C22: when the timer fires pingRpcUrl has returned, with false if nothing
\* had settled before; and what it has returned never changes afterwards.
C22_ReturnsByTheTimeout ==
    [][/\ TimerFires
          => /\ call'[1].returned # <<>>
             /\ call[1].returned = <<>> => call'[1].returned = <<FALSE>>
       /\ (Called("pingRpcUrl") /\ call[1].returned # <<>> /\ ~PingStart)
          => call'[1].returned = call[1].returned]_vars

\* A healthy response arrived after the timer had fired: the call had
\* already returned false.
C22_Witness ==
    /\ Called("pingRpcUrl")
    /\ call[1].first = "timer"
    /\ call[1].fetch = "resolved"
    /\ call[1].status = 200
    /\ call[1].body = "ok"
    /\ call[1].returned = <<FALSE>>

----------------------------------------------------------------------------
\* Properties: what reaches the disk, and when.

\* C23: the parameters file changes only in a 'Save and Back' step or in a
\* confirmed Delete, and then to the document that step handed to
\* writeParameters; entering the menu, Add, field edits, Cancel, Back, Back to
\* menu and a declined Delete leave it as it was.
C23_FileChangesOnlyAtCommit ==
    [][/\ parametersFile' # parametersFile
          => /\ \/ CodeSave \/ EditWalletSave \/ EditRpcSave
                \/ DeleteWalletConfirm \/ DeleteRpcConfirm
             /\ parametersFile' = <<lastWrite'[1].doc>>
       /\ (view \in {"DeleteWallet", "DeleteRpc"} /\ view' \in {"EditWallet", "EditRpc"})
          => parametersFile' = parametersFile
       /\ view \notin {"Code", "EditWallet", "EditRpc", "DeleteWallet", "DeleteRpc"}
          => parametersFile' = parametersFile]_vars

\* A wallet's edit menu is open on a staged document with two wallets while
\* the file on disk still holds another document.
C23_Witness ==
    /\ view = "EditWallet"
    /\ parametersFile # <<>>
    /\ Len(Wallets) = 2
    /\ params # parametersFile

C25_StagedKeptAfterFailedWrite ==
    (lastWrite # <<>> /\ ~lastWrite[1].ok)
    => /\ params # <<>>
       /\ view # "Main"

----------------------------------------------------------------------------
\* Properties: errors inside the parameters menu.

\* C26: a failed writeParameters, a getEncryptionKey that throws and a
\* storeSecret that throws are each reported by the main loop, which then
\* shows the main menu; the loop ends only by 'Exit' in the main menu.
C26_ErrorsReturnToMainMenu ==
    [][/\ (lastWrite' # <<>> /\ ~lastWrite'[1].ok) => reported' # <<>>
       /\ (KeySetupThrows \/ StoreSecretThrows) => reported' # <<>>
       /\ reported' # <<>> => view' = "Main"
       /\ (view' = "Exited" /\ view # "Exited") => Exit]_vars

\* The main menu shows after a storeSecret that threw, with a parameters
\* file on disk.
C26_Witness ==
    /\ view = "Main"
    /\ reported = <<"storeSecret">>
    /\ parametersFile # <<>>

\* C27: 'Set Parameters' opens the parameters menu, in which General Settings
\* can be edited and saved, also when getEncryptionKey cannot establish a
\* key.
C27_MenuOpensWithoutKey ==
    [][(EnterParameters \/ KeySetupThrows) => view' = "Params"]_vars

\* C28: an interrupt does nothing by itself but open a confirmation prompt:
\* the process goes on, and what the menu holds is kept until the operator
\* has answered.
C28_InterruptAsksFirst ==
    [][Interrupt
       => /\ view' = "ConfirmExit"
          /\ UNCHANGED <<params, wallet, rpc, encryptionKey>>]_vars

----------------------------------------------------------------------------
\* Properties: what the screen gives away.

\* The non-empty values a secret of an entry can have.
StoredValues == SecretValues \ {""}

\* C29: while an edit menu is open, the screen is the one any other non-empty
\* secret value of the entry would give (a masked placeholder stands for the
\* value), the secret prompts show the placeholder whatever is stored, and
\* 'None' is shown exactly when nothing can be retrieved for the entry.
C29_DisplayIndependentOfSecret ==
    /\ view = "EditWallet" =>
         LET entry == Find(Wallets, wallet)
             current == RetrieveSecret(secretsFile, WalletSecretKey(wallet), encryptionKey[1])
         IN  /\ current # <<>> =>
                  \A v \in StoredValues : Screen = EditWalletMenu(entry, <<v>>)
             /\ (Screen[2][2] = "None") <=> (current = <<>>)
             /\ \A v \in StoredValues : \A i \in 1..3 : Screen[i][2] # v
             /\ PromptMessage("Enter Solana Wallet Address (secret)", SecretPlaceholder, TRUE)[2]
                  = "******"
    /\ view = "EditRpc" =>
         LET entry == Find(Rpcs, rpc)
             current == RetrieveSecret(secretsFile, RpcSecretKey(rpc), encryptionKey[1])
         IN  /\ current # <<>> =>
                  \A v \in StoredValues : Screen = EditRpcMenu(entry, <<v>>)
             /\ (Screen[2][2] = "None") <=> (current = <<>>)
             /\ \A v \in StoredValues : \A i \in 1..3 : Screen[i][2] # v
             /\ PromptMessage("Enter RPC URL (secret)", SecretPlaceholder, TRUE)[2]
                  = "******"

\* The edit menu of a wallet whose address is stored shows the placeholder.
C29_Witness ==
    /\ view = "EditWallet"
    /\ RetrieveSecret(secretsFile, WalletSecretKey(wallet), encryptionKey[1]) = <<"addrA">>
    /\ Screen[2] = <<"1: Solana Wallet Address (secret)", "******">>

----------------------------------------------------------------------------
\* Properties: the secrets file against the parameters file.

\* The secret keys present in the secrets file.
MappingKeys == IF secretsFile = <<>> THEN {} ELSE DOMAIN secretsFile[1]

\* The secret keys of the entries of the document on disk.
DocumentKeys ==
    IF ~FileUsable THEN {}
    ELSE {WalletSecretKey(id) : id \in Ids(parametersFile[1].defaultWalletAddresses)}
         \cup {RpcSecretKey(id) : id \in Ids(parametersFile[1].defaultRpcUrls)}

\* C30: at every prompt the keys of the secrets file are exactly the secret
\* keys of the entries of the document on disk: no secret without its entry,
\* no entry without its secret.
C30_SecretsMatchDocument ==
    /\ MappingKeys \subseteq DocumentKeys
    /\ DocumentKeys \subseteq MappingKeys

----------------------------------------------------------------------------
\* The order prompts, with everything the operator can type at them.

\* The menu above is run with whole numbers at its order prompts; here the
\* prompt is also given decimals and negative numbers.
OrderTexts ==
    OrderInputs
    \cup {[kind |-> "num", n |-> -1]}
    \cup {[kind |-> "decimal", n |-> k, tenths |-> 5] : k \in 0..1}

\* The four order prompts of the menu.
OrderSites == {"addWallet", "editWallet", "addRpc", "editRpc"}

\* The entry the prompt is asked for: the one being added, whose order is not
\* set yet (0 here), or a staged one.
EntriesAt(site) ==
    IF site \in {"addWallet", "addRpc"}
    THEN {[name |-> n, order |-> [val |-> 0, tenths |-> 0]] : n \in NameInputs \ {""}}
    ELSE {[name |-> n, order |-> [val |-> o, tenths |-> 0]] :
            n \in NameInputs \ {""}, o \in 1..MaxOrder}

\* Number(value) as an order.
OrderOf(input) == [val |-> ToNumber(input).val, tenths |-> ToNumber(input).tenths]

OrderPromptInit ==
    /\ MenuIdle
    /\ parametersFile = <<>>
    /\ secretsFile = <<>>
    /\ keyFile = <<>>
    /\ encryptionKey = <<>>

\* An answer at an order prompt: the validator sends it back, or the entry
\* gets order: Number(value).
OrderPrompt ==
    /\ view = "Library"
    /\ \E site \in OrderSites :
        \E entry \in EntriesAt(site), input \in OrderTexts :
            call' = <<[op |-> "orderPrompt", site |-> site, input |-> input,
                       accepted |-> OrderValid(input),
                       entry |-> IF OrderValid(input)
                                 THEN [entry EXCEPT !.order = OrderOf(input)]
                                 ELSE entry,
                       written |-> <<>>]>>
    /\ UNCHANGED <<menuVars, parametersFile, secretsFile, keyVars>>

\* Code Settings, Save, with the entry staged: writeParameters validates the
\* whole document, the order by z.number().positive().
OrderWritten ==
    /\ view = "Library"
    /\ Called("orderPrompt")
    /\ call[1].accepted
    /\ call[1].written = <<>>
    /\ \E ioOk \in BOOLEAN :
        call' = <<[call[1] EXCEPT !.written = <<Positive(call[1].entry.order) /\ ioOk>>]>>
    /\ UNCHANGED <<menuVars, parametersFile, secretsFile, keyVars>>

OrderPromptNext == OrderPrompt \/ OrderWritten

OrderPromptSpec == OrderPromptInit /\ [][OrderPromptNext]_vars

\* A positive integer.
PositiveInteger(num) == num.val > 0 /\ num.tenths = 0

\* C31: the order prompt takes an answer only if it spells a positive
\* integer, so the order an entry is given, and the order written with it,
\* is a positive integer.
C31_OrderIsPositiveInteger ==
    (Called("orderPrompt") /\ call[1].accepted) =>
        /\ call[1].input.kind = "num"
        /\ PositiveInteger(call[1].entry.order)

----------------------------------------------------------------------------
\* The file operations of the menu, one at a time.

Rd(file) == [file |-> file, rw |-> "read"]
Wr(file) == [file |-> file, rw |-> "write"]

\* The fs calls of each store function, in program order.
ReadParametersOps == <<Rd("parameters")>>
WriteParametersOps == <<Wr("parameters")>>
GetEncryptionKeyOps(cached, onDisk) ==
    IF cached THEN <<>>
    ELSE IF onDisk THEN <<Rd("key")>>
    ELSE <<Rd("key"), Wr("key")>>
StoreSecretOps == <<Rd("secrets"), Wr("secrets")>>
RetrieveSecretOps == <<Rd("secrets")>>

\* The store calls of each step of showParametersMenu, in program order.
HandlerOps(handler) ==
    IF handler = "enter"
    THEN {ReadParametersOps \o GetEncryptionKeyOps(cached, onDisk) :
            cached \in BOOLEAN, onDisk \in BOOLEAN}
    ELSE IF handler \in {"codeSave", "walletSave", "walletDelete", "rpcSave", "rpcDelete"}
    THEN {WriteParametersOps}
    ELSE IF handler \in {"addWallet", "addRpc"}
    THEN {StoreSecretOps}
    ELSE IF handler \in {"openEditWallet", "openEditRpc"}
    THEN {RetrieveSecretOps \o RetrieveSecretOps}
    ELSE {StoreSecretOps \o RetrieveSecretOps}

Handlers ==
    {"enter", "codeSave", "walletSave", "walletDelete", "rpcSave", "rpcDelete",
     "addWallet", "addRpc", "openEditWallet", "openEditRpc", "editWalletAddress",
     "editRpcUrl"}

\* A call started without waiting for the one before it.
NotAwaited(inflight) == TRUE

\* `await`: the caller goes on only when the promise of the call has settled.
Awaited(inflight) == inflight = {}

\* A failed read is caught inside the store function; a failed write is
\* thrown to the main loop, and the rest of the step is not run.
Caught(operation) == operation.rw = "read"

FileOpsInit ==
    /\ MenuIdle
    /\ parametersFile = <<>>
    /\ secretsFile = <<>>
    /\ keyFile = <<>>
    /\ encryptionKey = <<>>

\* An answer at a prompt starts a step of the menu.
BeginHandler ==
    /\ view = "Library"
    /\ IF call = <<>> THEN TRUE
       ELSE call[1].todo = <<>> /\ call[1].inflight = {}
    /\ \E handler \in Handlers :
        \E ops \in HandlerOps(handler) :
            call' = <<[op |-> "menuStep", handler |-> handler, todo |-> ops,
                       inflight |-> {}, settled |-> <<>>]>>
    /\ UNCHANGED <<menuVars, parametersFile, secretsFile, keyVars>>

\* The next fs call of the step is made.
StartOp ==
    /\ view = "Library"
    /\ Called("menuStep")
    /\ call[1].todo # <<>>
    /\ Awaited(call[1].inflight)
    /\ call' = <<[call[1] EXCEPT
                    !.todo = Tail(@),
                    !.inflight = @ \cup {[at |-> Len(call[1].settled) + Cardinality(@) + 1,
                                          operation |-> Head(call[1].todo)]}]>>
    /\ UNCHANGED <<menuVars, parametersFile, secretsFile, keyVars>>

\* An fs call in flight settles: it resolves, or it rejects.
CompleteOp ==
    /\ view = "Library"
    /\ Called("menuStep")
    /\ \E started \in call[1].inflight, ok \in BOOLEAN :
        call' = <<[call[1] EXCEPT
                     !.inflight = @ \ {started},
                     !.settled = Append(@, ok),
                     !.todo = IF ok \/ Caught(started.operation) THEN @ ELSE <<>>]>>
    /\ UNCHANGED <<menuVars, parametersFile, secretsFile, keyVars>>

FileOpsNext == BeginHandler \/ StartOp \/ CompleteOp

FileOpsSpec == FileOpsInit /\ [][FileOpsNext]_vars

\* C32: at most one operation on the parameters file, the secrets file or the
\* key file is in flight at any time.
C32_OneOperationInFlight ==
    Called("menuStep") => Cardinality(call[1].inflight) <= 1

\* The write of storeSecret is in flight, its read has settled.
C32_Witness ==
    /\ Called("menuStep")
    /\ call[1].handler = "addWallet"
    /\ \E started \in call[1].inflight : started.operation = Wr("secrets")
    /\ Len(call[1].settled) = 1

----------------------------------------------------------------------------
\* Properties: General Settings.

\* C33: General Settings keeps the settings it was entered with untouched by
\* the edits of the two fields, and Cancel puts exactly these back, leaves
\* the rest of the staged document and the three files as they are, writes
\* nothing and shows the Parameters menu.
C33_CodeCancelRestores ==
    [][/\ ParametersCode => originalCodeSettings' = <<Doc.defaultCodeSettings>>
       /\ (view = "Code" /\ view' = "Code") => UNCHANGED originalCodeSettings
       /\ CodeCancel
          => /\ params'[1].defaultCodeSettings.timeoutSeconds
                  = originalCodeSettings[1].timeoutSeconds
             /\ params'[1].defaultCodeSettings.numberOfAttempts
                  = originalCodeSettings[1].numberOfAttempts
             /\ params'[1].defaultWalletAddresses = Wallets
             /\ params'[1].defaultRpcUrls = Rpcs
             /\ lastWrite' = <<>>
             /\ UNCHANGED <<parametersFile, secretsFile, keyFile>>
             /\ view' = "Params"]_vars

\* General Settings is open with both fields edited away from the values it
\* was entered with: Cancel has both to put back.
C33_Witness ==
    /\ view = "Code"
    /\ Doc.defaultCodeSettings.timeoutSeconds # originalCodeSettings[1].timeoutSeconds
    /\ Doc.defaultCodeSettings.numberOfAttempts # originalCodeSettings[1].numberOfAttempts

----------------------------------------------------------------------------
\* Properties: where Cancel, Save, Delete and Back lead.

\* The write of this step, if there was one, succeeded.
NoFailedWrite == lastWrite' = <<>> \/ lastWrite'[1].ok

\* C34: Cancel, a Save that was written and a confirmed Delete that was
\* written show the list of the collection of the entry; a Save of General
\* Settings that was written shows the Parameters menu; and the main menu is
\* reached from the parameters menu only by 'Back to menu'.
C34_OneLevelUp ==
    [][NoFailedWrite
       => /\ (EditWalletCancel \/ EditWalletSave) => view' = "Wallets"
          /\ (DeleteWalletConfirm /\ lastWrite' # <<>>) => view' = "Wallets"
          /\ (EditRpcCancel \/ EditRpcSave) => view' = "Rpcs"
          /\ (DeleteRpcConfirm /\ lastWrite' # <<>>) => view' = "Rpcs"
          /\ CodeSave => view' = "Params"
          /\ (view # "Main" /\ view' = "Main")
             => (ParametersBack \/ WalletsBackToMenu \/ RpcsBackToMenu)]_vars

----------------------------------------------------------------------------
\* Properties: what Save-and-Back changes.

\* The same entries, each with its id and its name.
SameEntries(before, after) ==
    /\ Len(after) = Len(before)
    /\ Ids(after) = Ids(before)
    /\ \A id \in Ids(before) : Find(after, id).name = Find(before, id).name

\* C35: the document a Save-and-Back hands to writeParameters holds, in the
\* collection of the entry, the staged entries with their ids and names, and
\* the other collection and the code settings as staged; once written it is
\* the staged document and the file.
C35_SaveChangesOnlyOrders ==
    [][/\ EditWalletSave
          => /\ SameEntries(Wallets, lastWrite'[1].doc.defaultWalletAddresses)
             /\ lastWrite'[1].doc.defaultRpcUrls = Rpcs
             /\ lastWrite'[1].doc.defaultCodeSettings = Doc.defaultCodeSettings
             /\ lastWrite'[1].ok
                => params' = <<lastWrite'[1].doc>> /\ parametersFile' = params'
       /\ EditRpcSave
          => /\ SameEntries(Rpcs, lastWrite'[1].doc.defaultRpcUrls)
             /\ lastWrite'[1].doc.defaultWalletAddresses = Wallets
             /\ lastWrite'[1].doc.defaultCodeSettings = Doc.defaultCodeSettings
             /\ lastWrite'[1].ok
                => params' = <<lastWrite'[1].doc>> /\ parametersFile' = params']_vars

\* A Save of a wallet has been written, it changed the order of the wallet,
\* and an RPC URL is staged beside it.
C35_Witness ==
    /\ Wrote({"walletSave"}) /\ lastWrite[1].ok
    /\ \E id \in Ids(Wallets) : Find(Wallets, id).order # Find(lastWrite[1].staged, id).order
    /\ Len(Rpcs) = 1

----------------------------------------------------------------------------
\* Save-and-Back on collections of up to MaxEntries entries.

\* The staged collections: entries in any array order, each with any order
\* the order prompt can have given it.
StagedCollections ==
    UNION {{[i \in 1..n |-> [id |-> ids[i], name |-> <<"entry", ids[i]>>,
                             order |-> orders[i]]] :
              ids \in {f \in [1..n -> 1..n] : \A i, j \in 1..n : f[i] = f[j] => i = j},
              orders \in [1..n -> 1..MaxStagedOrder]} :
           n \in 1..MaxEntries}

ReorderInit ==
    /\ MenuIdle
    /\ parametersFile = <<>>
    /\ secretsFile = <<>>
    /\ keyFile = <<>>
    /\ encryptionKey = <<>>

\* 'Save and Back' in the edit menu of the entry id of a staged collection.
SaveAndBack ==
    /\ view = "Library"
    /\ call = <<>>
    /\ \E staged \in StagedCollections :
        \E id \in Ids(staged) :
            call' = <<[op |-> "saveAndBack", staged |-> staged, id |-> id,
                       saved |-> ReorderOnSave(staged, id), again |-> FALSE]>>
    /\ UNCHANGED <<menuVars, parametersFile, secretsFile, keyVars>>

\* The list shows the saved collection; an entry is chosen and 'Save and
\* Back' follows with no field changed.
SaveAgain ==
    /\ view = "Library"
    /\ Called("saveAndBack")
    /\ ~call[1].again
    /\ \E id \in Ids(call[1].saved) :
        call' = <<[op |-> "saveAndBack", staged |-> call[1].saved, id |-> id,
                   saved |-> ReorderOnSave(call[1].saved, id), again |-> TRUE]>>
    /\ UNCHANGED <<menuVars, parametersFile, secretsFile, keyVars>>

ReorderNext == SaveAndBack \/ SaveAgain

ReorderSpec == ReorderInit /\ [][ReorderNext]_vars

\* C36: of two entries that are not the edited one, the one staged with the
\* smaller order has the smaller order after the Save.
C36_OthersKeepRelativeOrder ==
    Called("saveAndBack") =>
        \A a, b \in Ids(call[1].staged) \ {call[1].id} :
            Find(call[1].staged, a).order < Find(call[1].staged, b).order
            => Find(call[1].saved, a).order < Find(call[1].saved, b).order

\* A Save on the first of three entries, with the other two staged in the
\* array against their orders.
C36_Witness ==
    /\ Called("saveAndBack")
    /\ Len(call[1].staged) = 3
    /\ call[1].id = 1
    /\ call[1].staged[1].id = 3 /\ call[1].staged[1].order = 2
    /\ call[1].staged[3].id = 2 /\ call[1].staged[3].order = 1
    /\ Find(call[1].saved, 2).order < Find(call[1].saved, 3).order

\* C37: a Save-and-Back with no field changed, in the edit menu of any entry
\* of a collection whose orders are exactly 1..N, leaves every entry with its
\* order; and a Save right after a Save gives the collection the first gave.
C37_SaveIsIdempotent ==
    Called("saveAndBack") =>
        /\ Contiguous(call[1].staged)
           => \A id \in Ids(call[1].staged) :
                Find(call[1].saved, id).order = Find(call[1].staged, id).order
        /\ call[1].again => call[1].saved = call[1].staged

\* A second Save, in the edit menu of the middle one of three entries.
C37_Witness ==
    /\ Called("saveAndBack")
    /\ call[1].again
    /\ Len(call[1].staged) = 3
    /\ Find(call[1].staged, call[1].id).order = 2

----------------------------------------------------------------------------
\* Properties: the default entry of a list.

\* The ids labelled '(default)' in the list of a collection.
Defaults(coll) ==
    {ListChoices(coll)[i].id : i \in {j \in 1..Len(coll) : ListChoices(coll)[j].default}}

\* C38: whenever a list menu shows a collection that is not empty, one entry
\* is labelled the default, and it is the one with order 1.
C38_OneDefaultWithOrderOne ==
    /\ (view = "Wallets" /\ Wallets # <<>>)
       => /\ Cardinality(Defaults(Wallets)) = 1
          /\ \A id \in Defaults(Wallets) : Find(Wallets, id).order = 1
    /\ (view = "Rpcs" /\ Rpcs # <<>>)
       => /\ Cardinality(Defaults(Rpcs)) = 1
          /\ \A id \in Defaults(Rpcs) : Find(Rpcs, id).order = 1

----------------------------------------------------------------------------
\* Properties: storeSecret and the other records.

\* C39: a call of storeSecret leaves every record of the secrets file other
\* than the one of its secretKey in the file, as it was, whether the read at
\* its start succeeded or failed.
C39_StoreKeepsOtherRecords ==
    [][Store
       => \A k \in MappingKeys \ {call'[1].secretKey} :
            /\ secretsFile' # <<>>
            /\ k \in DOMAIN secretsFile'[1]
            /\ secretsFile'[1][k] = secretsFile[1][k]]_vars

====
